---- MODULE Spec2Model ----
(***************************************************************************)
(* A model of the Text Fragments implementation (src/src/index.ts): the    *)
(* text directive parser, the fragment directive processor, and the range  *)
(* resolver with its substring search over a document tree.                *)
(*                                                                         *)
(* Strings are TLA+ strings, indexed from 1; a JavaScript index i is the   *)
(* position i + 1 here.  A nullable value is a sequence of length at most  *)
(* one: Null is <<>>, a present value v is <<v>>.                          *)
(***************************************************************************)
EXTENDS Integers, Sequences, FiniteSets, TLC

VARIABLES
    document,       \* the document tree the operation runs on
    input,          \* the string handed to the operation under study
    pc,             \* the position of the running operation
    parsedValues,   \* the result of parseTextDirective for the current directive
    result,         \* the value the finished operation returned (or threw)
    searchRange,    \* findRangeFromTextDirective's searchRange
    directives,     \* processFragmentDirective: the directives not yet processed
    ranges          \* processFragmentDirective: the ranges found so far

vars == <<document, input, pc, parsedValues, result, searchRange, directives, ranges>>

---------------------------------------------------------------------------
(* Nullable values *)

Null == <<>>
Some(v) == <<v>>
IsNull(o) == o = <<>>
Val(o) == o[1]

---------------------------------------------------------------------------
(* JavaScript string operations, as the source uses them *)

\* s[i] for a JavaScript index i (0-based); "" when out of range
CharAt(s, i) == IF i >= 0 /\ i < Len(s) THEN SubSeq(s, i + 1, i + 1) ELSE ""

\* String.prototype.substring(from, to): both ends clamped to [0, length],
\* and swapped when from > to
Clamp(i, n) == IF i < 0 THEN 0 ELSE IF i > n THEN n ELSE i
SubstringBetween(s, a, b) ==
    IF a = b THEN "" ELSE IF a < b THEN SubSeq(s, a + 1, b) ELSE SubSeq(s, b + 1, a)
Substring2(s, from, to) == SubstringBetween(s, Clamp(from, Len(s)), Clamp(to, Len(s)))
Substring1(s, from) == Substring2(s, from, Len(s))

StartsWithAt(s, q, i) == i + Len(q) <= Len(s) /\ SubSeq(s, i + 1, i + Len(q)) = q
StartsWith(s, q) == StartsWithAt(s, q, 0)
EndsWith(s, q) == Len(q) <= Len(s) /\ StartsWithAt(s, q, Len(s) - Len(q))

\* String.prototype.indexOf(q, from): the least index >= from where q occurs, or -1
RECURSIVE IndexOfClamped(_, _, _)
IndexOfClamped(s, q, f) ==
    IF f + Len(q) > Len(s) THEN -1
    ELSE IF StartsWithAt(s, q, f) THEN f
    ELSE IndexOfClamped(s, q, f + 1)
IndexOfFrom(s, q, from) == IndexOfClamped(s, q, Clamp(from, Len(s)))

\* String.prototype.split(sep) for a one-character separator: never empty
RECURSIVE Split(_, _)
SplitAt(s, sep, i) ==
    IF i = -1 THEN <<s>>
    ELSE <<Substring2(s, 0, i)>> \o Split(Substring1(s, i + 1), sep)
Split(s, sep) == SplitAt(s, sep, IndexOfFrom(s, sep, 0))

RECURSIVE Join(_, _)
Join(list, sep) ==
    IF Len(list) = 0 THEN ""
    ELSE IF Len(list) = 1 THEN list[1]
    ELSE list[1] \o sep \o Join(Tail(list), sep)

---------------------------------------------------------------------------
(* decodeURIComponent (ECMAScript), over the characters the model uses.    *)
(* A "%" must be followed by two hexadecimal digits, else URIError.  The   *)
(* escapes the model's inputs can spell are single bytes in the printable  *)
(* ASCII range; a byte >= 0x80 that no continuation byte follows is a      *)
(* URIError as well.                                                       *)

HexDigits == "0123456789ABCDEF"
HexDigitsLower == "0123456789abcdef"
HexVal ==
    [c \in {CharAt(HexDigits, i) : i \in 0..15} \cup {CharAt(HexDigitsLower, i) : i \in 0..15} |->
        IF IndexOfFrom(HexDigits, c, 0) >= 0 THEN IndexOfFrom(HexDigits, c, 0)
        ELSE IndexOfFrom(HexDigitsLower, c, 0)]
IsHexDigit(c) == c \in DOMAIN HexVal

\* the character of a byte: the digits and letters of ASCII, the space, the
\* comma and the hyphen; any other byte stands as "?"
UpperLetters == "ABCDEFGHIJKLMNOPQRSTUVWXYZ"
LowerLetters == "abcdefghijklmnopqrstuvwxyz"
Digits == "0123456789"
ByteChar(b) ==
    IF b >= 65 /\ b <= 90 THEN CharAt(UpperLetters, b - 65)
    ELSE IF b >= 97 /\ b <= 122 THEN CharAt(LowerLetters, b - 97)
    ELSE IF b >= 48 /\ b <= 57 THEN CharAt(Digits, b - 48)
    ELSE IF b = 32 THEN " "
    ELSE IF b = 44 THEN ","
    ELSE IF b = 45 THEN "-"
    ELSE "?"

URIError == [ok |-> FALSE, s |-> ""]
Decodes(s) == [ok |-> TRUE, s |-> s]

\* the decoded character c, followed by the decoding of the rest
DecodedAhead(c, rest) == IF rest.ok THEN Decodes(c \o rest.s) ELSE URIError
DecodedByte(b, rest) == IF b >= 128 THEN URIError ELSE DecodedAhead(ByteChar(b), rest)

RECURSIVE decodeURIComponent(_)
decodeURIComponent(s) ==
    IF s = "" THEN Decodes("")
    ELSE IF CharAt(s, 0) # "%" THEN DecodedAhead(CharAt(s, 0), decodeURIComponent(Substring1(s, 1)))
    ELSE IF ~(IsHexDigit(CharAt(s, 1)) /\ IsHexDigit(CharAt(s, 2))) THEN URIError
    ELSE DecodedByte(16 * HexVal[CharAt(s, 1)] + HexVal[CharAt(s, 2)],
                     decodeURIComponent(Substring1(s, 3)))

---------------------------------------------------------------------------
(* parseTextDirective: the result is a directive, null, or a thrown        *)
(* URIError (decodeURIComponent is called with no try/catch around it).    *)

NoDirective == [textStart |-> Null, textEnd |-> Null, prefix |-> Null, suffix |-> Null]
ParsedNull == [kind |-> "null", value |-> NoDirective]
ParsedThrow == [kind |-> "throw", value |-> NoDirective]
ParsedOk(d) == [kind |-> "ok", value |-> d]

\* steps 7-10: the prefix and the suffix, with the tokens left after removing them
Taken(decoded, tokens) == [decoded |-> decoded, present |-> TRUE, tokens |-> tokens]
NotTaken(tokens) == [decoded |-> Decodes(""), present |-> FALSE, tokens |-> tokens]

TakePrefix(tokens) ==
    IF EndsWith(tokens[1], "-")
    THEN Taken(decodeURIComponent(Substring2(tokens[1], 0, Len(tokens[1]) - 1)), Tail(tokens))
    ELSE NotTaken(tokens)

\* a variant of TakeSuffix that forgets step 10.2 (tokens.pop())
TakeSuffixKeepsToken(tokens) ==
    IF Len(tokens) > 0 /\ StartsWith(tokens[Len(tokens)], "-")
    THEN Taken(decodeURIComponent(Substring1(tokens[Len(tokens)], 1)), tokens)
    ELSE NotTaken(tokens)

TakeSuffix(tokens) ==
    IF Len(tokens) > 0 /\ StartsWith(tokens[Len(tokens)], "-")
    THEN Taken(decodeURIComponent(Substring1(tokens[Len(tokens)], 1)),
               SubSeq(tokens, 1, Len(tokens) - 1))
    ELSE NotTaken(tokens)

\* step 14: the directive, once textStart and textEnd are decoded
ParsedDirective(p, x, textStart, textEnd) ==
    IF ~textStart.ok \/ ~textEnd.ok THEN ParsedThrow
    ELSE ParsedOk([textStart |-> Some(textStart.s),
                   textEnd |-> IF Len(x.tokens) = 2 THEN Some(textEnd.s) ELSE Null,
                   prefix |-> IF p.present THEN Some(p.decoded.s) ELSE Null,
                   suffix |-> IF x.present THEN Some(x.decoded.s) ELSE Null])

\* steps 11-13, with the prefix p and the suffix x taken
ParseStart(p, x) ==
    IF ~x.decoded.ok THEN ParsedThrow
    ELSE IF Len(x.tokens) # 1 /\ Len(x.tokens) # 2 THEN ParsedNull
    ELSE ParsedDirective(p, x, decodeURIComponent(x.tokens[1]),
                         IF Len(x.tokens) = 2 THEN decodeURIComponent(x.tokens[Len(x.tokens)])
                         ELSE Decodes(""))

\* steps 9-10, with the prefix p taken
ParseSuffix(p) == IF ~p.decoded.ok THEN ParsedThrow ELSE ParseStart(p, TakeSuffix(p.tokens))

\* steps 4-8, on the tokens of the directive string
ParseTokens(tokens) ==
    IF Len(tokens) < 1 \/ Len(tokens) > 4 THEN ParsedNull
    ELSE IF \E i \in 1..Len(tokens) : tokens[i] = "" THEN ParsedNull
    ELSE ParseSuffix(TakePrefix(tokens))

parseTextDirective(textDirectiveInput) ==
    ParseTokens(Split(Substring1(textDirectiveInput, 5), ","))

---------------------------------------------------------------------------
(* The parser on its own: a text directive input is drawn, then parsed.    *)

MaxTokens == 5

\* the comma-free pieces an input is made of: empty, plain, ending or
\* starting with "-", a lone "-", a malformed escape, a well-formed escape
TokenPool == {"", "x", "x-", "-x", "-", "%", "%44"}

TokenLists == UNION {[1..n -> TokenPool] : n \in 1..MaxTokens}

NoDocument == [kind |-> <<>>]

InitParse ==
    /\ \E tokens \in TokenLists : input = "text=" \o Join(tokens, ",")
    /\ document = NoDocument
    /\ pc = "parse"
    /\ parsedValues = ParsedNull
    /\ result = Null
    /\ searchRange = Null
    /\ directives = <<>>
    /\ ranges = <<>>

ParseTextDirective ==
    /\ pc = "parse"
    /\ parsedValues' = parseTextDirective(input)
    /\ pc' = "parsed"
    /\ UNCHANGED <<document, input, result, searchRange, directives, ranges>>

NextParse == ParseTextDirective

SpecParse == InitParse /\ [][NextParse]_vars

---------------------------------------------------------------------------
(* Claims about the parser, checked under SpecParse *)

\* the non-empty comma-free strings a field may be written as
FieldPool == TokenPool \ {""}

Decoded(s) == decodeURIComponent(s).s
Decodable(s) == decodeURIComponent(s).ok

FourFieldInput(P, S, E, X) == "text=" \o P \o "-," \o S \o "," \o E \o ",-" \o X

\* the inputs text=P-,S,E,-X with non-empty P, S, E, X whose fields decode,
\* each with the directive the claim expects for it
FourFieldCases ==
    {[in |-> FourFieldInput(P, S, E, X),
      out |-> ParsedOk([prefix |-> Some(Decoded(P)), textStart |-> Some(Decoded(S)),
                        textEnd |-> Some(Decoded(E)), suffix |-> Some(Decoded(X))])] :
        <<P, S, E, X>> \in {q \in FieldPool \X FieldPool \X FieldPool \X FieldPool :
                              \A i \in 1..4 : Decodable(q[i])}}

FourFieldDecoded ==
    pc = "parsed" => \A c \in FourFieldCases : input = c.in => parsedValues = c.out

SingleTokenDecoded(S) ==
    (/\ pc = "parsed"
     /\ input = "text=" \o S
     /\ ~EndsWith(S, "-") /\ ~StartsWith(S, "-")
     /\ Decodable(S))
    => parsedValues = ParsedOk([textStart |-> Some(Decoded(S)), textEnd |-> Null,
                                prefix |-> Null, suffix |-> Null])

WithoutPrefix(tokens) == IF EndsWith(tokens[1], "-") THEN Tail(tokens) ELSE tokens
WithoutSuffix(tokens) ==
    IF Len(tokens) > 0 /\ StartsWith(tokens[Len(tokens)], "-")
    THEN SubSeq(tokens, 1, Len(tokens) - 1) ELSE tokens
Remaining(tokens) == WithoutSuffix(WithoutPrefix(tokens))

NullCondition(tokens) ==
    \/ Len(tokens) < 1 \/ Len(tokens) > 4
    \/ \E i \in 1..Len(tokens) : tokens[i] = ""
    \/ Len(Remaining(tokens)) \notin {1, 2}

\* C2: parseTextDirective returns null exactly when the token count is outside
\* 1..4, a token is empty, or the tokens remaining after the prefix and suffix
\* are not 1 or 2; otherwise it returns a directive whose textStart is the
\* (decoded) first remaining token and whose textEnd is the second, if any.
C2_NullExactlyWhenMalformed ==
    pc = "parsed" =>
        LET tokens == Split(Substring1(input, 5), ",")
            rem == Remaining(tokens)
        IN  IF NullCondition(tokens) THEN parsedValues.kind = "null"
            ELSE /\ parsedValues.kind = "ok"
                 /\ parsedValues.value.textStart = Some(Decoded(rem[1]))
                 /\ parsedValues.value.textEnd = IF Len(rem) = 2 THEN Some(Decoded(rem[2])) ELSE Null

NonEmptyOrNull(o) == IsNull(o) \/ Val(o) # ""

\* C3: a directive returned by parseTextDirective has a non-empty textStart,
\* and its prefix, suffix and textEnd are each null or non-empty.
C3_NoEmptyField ==
    (pc = "parsed" /\ parsedValues.kind = "ok") =>
        /\ ~IsNull(parsedValues.value.textStart) /\ Val(parsedValues.value.textStart) # ""
        /\ NonEmptyOrNull(parsedValues.value.prefix)
        /\ NonEmptyOrNull(parsedValues.value.suffix)
        /\ NonEmptyOrNull(parsedValues.value.textEnd)

---------------------------------------------------------------------------
(* The document tree.  A document is a sequence of nodes; a node is named  *)
(* by its index, 0 stands for null.  Nodes are numbered in tree order      *)
(* (preorder), the nodes of a shadow tree right after their host, so that  *)
(* within one tree a smaller number means earlier in tree order.           *)

NullNode == 0

Node(kind, parent, data, localName, display, visibility, hidden, shadowRoot, host) ==
    [kind |-> kind, parent |-> parent, data |-> data, localName |-> localName,
     display |-> display, visibility |-> visibility, hidden |-> hidden,
     shadowRoot |-> shadowRoot, host |-> host]

DocumentNode == Node("document", NullNode, "", "", "", "visible", FALSE, NullNode, NullNode)
DoctypeNode(parent) == Node("doctype", parent, "", "", "", "visible", FALSE, NullNode, NullNode)
ElementNode(parent, localName, display, visibility) ==
    Node("element", parent, "", localName, display, visibility, FALSE, NullNode, NullNode)
HostNode(parent, localName, display, shadowRoot) ==
    Node("element", parent, "", localName, display, "visible", FALSE, shadowRoot, NullNode)
ShadowRootNode(host) == Node("shadowroot", NullNode, "", "", "", "visible", FALSE, NullNode, host)
TextNode(parent, data) == Node("text", parent, data, "", "", "visible", FALSE, NullNode, NullNode)
CommentNode(parent, data) == Node("comment", parent, data, "", "", "visible", FALSE, NullNode, NullNode)

Nodes(doc) == 1..Len(doc)

\* Node.childNodes, in order
RECURSIVE ChildrenFrom(_, _, _)
ChildrenFrom(doc, node, from) ==
    IF from > Len(doc) THEN <<>>
    ELSE IF doc[from].parent = node THEN <<from>> \o ChildrenFrom(doc, node, from + 1)
    ELSE ChildrenFrom(doc, node, from + 1)
Children(doc, node) == ChildrenFrom(doc, node, 1)

\* the first of a set of nodes in tree order, null for the empty set
FirstOf(nodes) == IF nodes = {} THEN NullNode ELSE CHOOSE m \in nodes : \A k \in nodes : m <= k

\* the first of two nodes that is not null
OrElse(node, other) == IF node # NullNode THEN node ELSE other

FirstChild(doc, node) == FirstOf({m \in Nodes(doc) : doc[m].parent = node})

NextSibling(doc, node) ==
    IF doc[node].parent = NullNode THEN NullNode
    ELSE FirstOf({m \in Nodes(doc) : m > node /\ doc[m].parent = doc[node].parent})

\* the index of a node among its parent's children
IndexOf(doc, node) ==
    Cardinality({m \in Nodes(doc) : m < node /\ doc[m].parent = doc[node].parent})

\* Node.getRootNode()
RECURSIVE GetRootNode(_, _)
GetRootNode(doc, node) ==
    IF doc[node].parent = NullNode THEN node ELSE GetRootNode(doc, doc[node].parent)

isElement(doc, node) == doc[node].kind = "element"

RECURSIVE isDescendant(_, _, _)
isDescendant(doc, nodeA, nodeB) ==
    \/ doc[nodeA].parent = nodeB
    \/ doc[nodeA].parent # NullNode /\ isDescendant(doc, doc[nodeA].parent, nodeB)

nodeLength(doc, node) ==
    CASE doc[node].kind = "doctype" -> 0
      [] doc[node].kind \in {"text", "comment"} -> Len(doc[node].data)
      [] OTHER -> Len(Children(doc, node))

\* TreeWalker.nextNode() of a walker rooted at node.getRootNode(): the next
\* node in preorder within that tree, or null after its last node
RECURSIVE NextSiblingOfAncestor(_, _)
NextSiblingOfAncestor(doc, node) ==
    IF doc[node].parent = NullNode THEN NullNode
    ELSE OrElse(NextSibling(doc, node), NextSiblingOfAncestor(doc, doc[node].parent))

nextNode(doc, node) == OrElse(FirstChild(doc, node), NextSiblingOfAncestor(doc, node))

isShadowHost(doc, node) == isElement(doc, node) /\ doc[node].shadowRoot # NullNode

nextNodeInShadowIncludingTreeOrder(doc, node) ==
    IF isShadowHost(doc, node)
    THEN \* the shadow root is no element, hence no shadow host: the recursive call is nextNode
         nextNode(doc, doc[node].shadowRoot)
    ELSE nextNode(doc, node)

RECURSIVE isShadowIncludingDescendant(_, _, _)
HostIsOrDescendsFrom(doc, nodeARoot, nodeB) ==
    /\ doc[nodeARoot].kind = "shadowroot"
    /\ \/ doc[nodeARoot].host = nodeB
       \/ isShadowIncludingDescendant(doc, doc[nodeARoot].host, nodeB)

isShadowIncludingDescendant(doc, nodeA, nodeB) ==
    \/ isDescendant(doc, nodeA, nodeB)
    \/ HostIsOrDescendsFrom(doc, GetRootNode(doc, nodeA), nodeB)

RECURSIVE nextNodeNotDescendantFrom(_, _, _)
nextNodeNotDescendantFrom(doc, curNode, node) ==
    IF curNode # NullNode /\ isShadowIncludingDescendant(doc, curNode, node)
    THEN nextNodeNotDescendantFrom(doc, nextNodeInShadowIncludingTreeOrder(doc, curNode), node)
    ELSE curNode

nextNodeInShadowIncludingTreeOrderThatIsNotAShadowIncludingDescendantOf(doc, node) ==
    nextNodeNotDescendantFrom(doc, nextNodeInShadowIncludingTreeOrder(doc, node), node)

---------------------------------------------------------------------------
(* The tree classifier *)

voidElements == {"area", "base", "br", "col", "embed", "hr", "img", "input", "link",
                 "meta", "param", "source", "track", "wbr"}

serializesAsVoid(doc, element) ==
    doc[element].localName \in voidElements \union {"basefont", "bgsound", "frame", "keygen"}

\* every element of the model is in the HTML namespace; no select element occurs
isSearchInvisible(doc, node) ==
    /\ isElement(doc, node)
    /\ \/ doc[node].display = "none"
       \/ serializesAsVoid(doc, node)
       \/ doc[node].localName \in {"iframe", "image", "meter", "object", "progress",
                                   "style", "script", "video", "audio"}

RECURSIVE partOfNonSearchableSubtree(_, _)
partOfNonSearchableSubtree(doc, node) ==
    IF node = NullNode THEN FALSE
    ELSE IF isSearchInvisible(doc, node) THEN TRUE
    ELSE partOfNonSearchableSubtree(doc, doc[node].parent)

isBeingRendered(doc, element) == ~doc[element].hidden

\* Node.parentElement: the parent, if it is an element
ParentElement(doc, node) ==
    IF doc[node].parent # NullNode /\ isElement(doc, doc[node].parent)
    THEN doc[node].parent ELSE NullNode

VisibleAndRendered(doc, parentElement) ==
    /\ parentElement # NullNode
    /\ doc[parentElement].visibility = "visible"
    /\ isBeingRendered(doc, parentElement)

isVisibleTextNode(doc, node) ==
    doc[node].kind = "text" /\ VisibleAndRendered(doc, ParentElement(doc, node))

\* the model's block-level display values all stand as "block"
hasBlockLevelDisplay(doc, node) == isElement(doc, node) /\ doc[node].display = "block"

\* document.documentElement
DocumentElement(doc) == FirstOf({m \in Nodes(doc) : doc[m].parent = 1 /\ isElement(doc, m)})

RECURSIVE nearestBlockAncestorFrom(_, _)
nearestBlockAncestorFrom(doc, curNode) ==
    IF curNode = NullNode THEN DocumentElement(doc)
    ELSE IF doc[curNode].kind # "text" /\ hasBlockLevelDisplay(doc, curNode) THEN curNode
    ELSE nearestBlockAncestorFrom(doc, doc[curNode].parent)

nearestBlockAncestorOf(doc, node) == nearestBlockAncestorFrom(doc, node)

---------------------------------------------------------------------------
(* Boundary points and ranges (DOM Standard, as the browser provides them).*)
(* A boundary point is <<node, offset>>; a range is its start and end.     *)
(* An operation that can throw returns a record whose st is "throw".       *)

NullPoint == <<NullNode, 0>>

Range(start, end) == [sc |-> start[1], so |-> start[2], ec |-> end[1], eo |-> end[2]]
getStart(range) == <<range.sc, range.so>>
getEnd(range) == <<range.ec, range.eo>>
samePoint(point1, point2) == point1[1] = point2[1] /\ point1[2] = point2[2]
Collapsed(range) == range.sc = range.ec /\ range.so = range.eo

NullRange == Range(NullPoint, NullPoint)

\* the ancestor-or-self of node that is a child of ancestor
RECURSIVE ChildToward(_, _, _)
ChildToward(doc, ancestor, node) ==
    IF doc[node].parent = ancestor THEN node ELSE ChildToward(doc, ancestor, doc[node].parent)

\* for a's node before b's node in tree order: point a is after point b
\* when b's node lies in a child of a's node that a's offset has passed
PassedChildToward(doc, a, b) ==
    isDescendant(doc, b[1], a[1]) /\ IndexOf(doc, ChildToward(doc, a[1], b[1])) < a[2]

\* the position of boundary point a relative to boundary point b (same root)
Position(doc, a, b) ==
    IF a[1] = b[1] THEN (IF a[2] = b[2] THEN "equal" ELSE IF a[2] < b[2] THEN "before" ELSE "after")
    ELSE IF a[1] < b[1] THEN (IF PassedChildToward(doc, a, b) THEN "after" ELSE "before")
    ELSE (IF PassedChildToward(doc, b, a) THEN "before" ELSE "after")

Ok(range) == [st |-> "ok", range |-> range, err |-> ""]
Throw(err) == [st |-> "throw", range |-> NullRange, err |-> err]

\* Range.setStart(node, offset)
SetStart(doc, range, node, offset) ==
    IF node = NullNode THEN Throw("TypeError")
    ELSE IF doc[node].kind = "doctype" THEN Throw("InvalidNodeTypeError")
    ELSE IF offset > nodeLength(doc, node) THEN Throw("IndexSizeError")
    ELSE IF \/ GetRootNode(doc, range.sc) # GetRootNode(doc, node)
            \/ Position(doc, <<node, offset>>, getEnd(range)) = "after"
         THEN Ok(Range(<<node, offset>>, <<node, offset>>))
         ELSE Ok(Range(<<node, offset>>, getEnd(range)))

\* Range.setEnd(node, offset)
SetEnd(doc, range, node, offset) ==
    IF node = NullNode THEN Throw("TypeError")
    ELSE IF doc[node].kind = "doctype" THEN Throw("InvalidNodeTypeError")
    ELSE IF offset > nodeLength(doc, node) THEN Throw("IndexSizeError")
    ELSE IF \/ GetRootNode(doc, range.sc) # GetRootNode(doc, node)
            \/ Position(doc, <<node, offset>>, getStart(range)) = "before"
         THEN Ok(Range(<<node, offset>>, <<node, offset>>))
         ELSE Ok(Range(getStart(range), <<node, offset>>))

\* document.createRange(): collapsed at (document, 0)
CreateRange == Range(<<1, 0>>, <<1, 0>>)

\* Range.comparePoint(node, offset): -1, 0, 1, or a thrown exception (st "throw")
Compared(v) == [st |-> "ok", v |-> v, err |-> ""]
CompareThrows(err) == [st |-> "throw", v |-> 0, err |-> err]
ComparePoint(doc, range, node, offset) ==
    IF GetRootNode(doc, node) # GetRootNode(doc, range.sc) THEN CompareThrows("WrongDocumentError")
    ELSE IF doc[node].kind = "doctype" THEN CompareThrows("InvalidNodeTypeError")
    ELSE IF offset > nodeLength(doc, node) THEN CompareThrows("IndexSizeError")
    ELSE IF Position(doc, <<node, offset>>, getStart(range)) = "before" THEN Compared(-1)
    ELSE IF Position(doc, <<node, offset>>, getEnd(range)) = "after" THEN Compared(1)
    ELSE Compared(0)

\* setStart and setEnd at a boundary point; a null point is the null node
SetStartAt(doc, range, point) == SetStart(doc, range, point[1], point[2])
SetEndAt(doc, range, point) == SetEnd(doc, range, point[1], point[2])

\* setEnd on the outcome of an earlier operation, whose exception propagates
ThenSetEndAt(doc, outcome, point) ==
    IF outcome.st = "throw" THEN outcome ELSE SetEndAt(doc, outcome.range, point)

\* a range from start to end made as the source makes it: createRange, setStart, setEnd
MakeRange(doc, start, end) == ThenSetEndAt(doc, SetStartAt(doc, CreateRange, start), end)

PointAtStartOf(next) == IF next # NullNode THEN <<next, 0>> ELSE NullPoint

\* a variant of firstBoundaryPointAfter that always goes to the next node
firstBoundaryPointInNextNode(doc, point) ==
    PointAtStartOf(nextNode(doc, point[1]))

firstBoundaryPointAfter(doc, point) ==
    IF point[2] < nodeLength(doc, point[1]) THEN <<point[1], point[2] + 1>>
    ELSE PointAtStartOf(nextNode(doc, point[1]))

---------------------------------------------------------------------------
(* Word boundaries *)

\* \w of a regular expression without the u flag
WordChars ==
    {CharAt(UpperLetters, i) : i \in 0..25} \cup {CharAt(LowerLetters, i) : i \in 0..25}
        \cup {CharAt(Digits, i) : i \in 0..9} \cup {"_"}
IsWordChar(c) == c \in WordChars

\* \s of a regular expression, and the White_Space property, over the model's characters
IsWhiteSpaceChar(c) == c = " "
hasWhiteSpaceProperty(c) == IsWhiteSpaceChar(c)

\* whether /^|\b|\s|$/g matches at index i of text
BoundaryMatchAt(text, i) ==
    \/ i = 0
    \/ IsWordChar(CharAt(text, i - 1)) # IsWordChar(CharAt(text, i))
    \/ IsWhiteSpaceChar(CharAt(text, i))
    \/ i = Len(text)

\* [...text.matchAll(/^|\b|\s|$/g)].map(match => match.index): increasing
RECURSIVE allBoundariesFrom(_, _)
allBoundariesFrom(text, i) ==
    IF i > Len(text) THEN <<>>
    ELSE IF BoundaryMatchAt(text, i) THEN <<i>> \o allBoundariesFrom(text, i + 1)
    ELSE allBoundariesFrom(text, i + 1)
allBoundaries(text) == allBoundariesFrom(text, 0)

\* Array.prototype.find over the list (reversed for 'before'); Null when nothing is found
LastAtOrBefore(all, position) ==
    LET hits == {k \in 1..Len(all) : all[k] <= position}
    IN  IF hits = {} THEN Null ELSE Some(all[CHOOSE k \in hits : \A j \in hits : j <= k])
FirstAfter(all, position) ==
    LET hits == {k \in 1..Len(all) : all[k] > position}
    IN  IF hits = {} THEN Null ELSE Some(all[CHOOSE k \in hits : \A j \in hits : k <= j])

nearestWordBoundary(text, position, direction) ==
    IF direction = "before" THEN LastAtOrBefore(allBoundaries(text), position)
    ELSE FirstAfter(allBoundaries(text), position)

\* steps 1-2 of isWordBounded alone: the left bound is at startPosition
isWordBoundedAtStart(text, startPosition, count) ==
    nearestWordBoundary(text, startPosition, "before") = Some(startPosition)

\* step 5 of isWordBounded: null - 1 is -1 in JavaScript
EndsBefore(rightBound, endPosition) ==
    IF IsNull(rightBound) THEN endPosition = -1 ELSE Val(rightBound) - 1 = endPosition

\* a variant of isWordBounded whose step 3 forgets the "- 1": endPosition is startPosition + count
isWordBoundedPastEnd(text, startPosition, count) ==
    IF nearestWordBoundary(text, startPosition, "before") # Some(startPosition) THEN FALSE
    ELSE EndsBefore(nearestWordBoundary(text, startPosition + count, "after"),
                    startPosition + count)

\* the locales are passed on to nearestWordBoundary, which does not read them
isWordBounded(text, startPosition, count) ==
    IF nearestWordBoundary(text, startPosition, "before") # Some(startPosition) THEN FALSE
    ELSE EndsBefore(nearestWordBoundary(text, startPosition + count - 1, "after"),
                    startPosition + count - 1)

---------------------------------------------------------------------------
(* The substring search *)

\* the lower-case form of each upper-case letter
LowerOf == [c \in {CharAt(UpperLetters, i) : i \in 0..25} |->
               CharAt(LowerLetters, IndexOfFrom(UpperLetters, c, 0))]
LowerChar(c) == IF c \in DOMAIN LowerOf THEN LowerOf[c] ELSE c

\* the string as it is, its case kept
KeepCase(s) == s

\* String.prototype.toLowerCase
RECURSIVE toLowerCase(_)
toLowerCase(s) ==
    IF s = "" THEN "" ELSE LowerChar(CharAt(s, 0)) \o toLowerCase(Substring1(s, 1))

RECURSIVE getBoundaryPointFrom(_, _, _, _, _, _)
getBoundaryPointFrom(doc, index, nodes, isEnd, k, counted) ==
    IF k > Len(nodes) THEN NullPoint
    ELSE IF counted + Len(doc[nodes[k]].data) + (IF isEnd THEN 1 ELSE 0) > index
         THEN <<nodes[k], index - counted>>
    ELSE getBoundaryPointFrom(doc, index, nodes, isEnd, k + 1, counted + Len(doc[nodes[k]].data))

\* a variant of getBoundaryPointAtIndex that adds 1 to nodeEnd whatever isEnd is
getBoundaryPointAlwaysEnd(doc, index, nodes, isEnd) ==
    getBoundaryPointFrom(doc, index, nodes, TRUE, 1, 0)

\* a variant of getBoundaryPointAtIndex that forgets step 2.2 (isEnd adds 1 to nodeEnd)
getBoundaryPointIgnoringIsEnd(doc, index, nodes, isEnd) ==
    getBoundaryPointFrom(doc, index, nodes, FALSE, 1, 0)

getBoundaryPointAtIndex(doc, index, nodes, isEnd) ==
    getBoundaryPointFrom(doc, index, nodes, isEnd, 1, 0)

\* nodes.map(node => node.data).join('')
RECURSIVE SearchBuffer(_, _)
SearchBuffer(doc, nodes) ==
    IF Len(nodes) = 0 THEN "" ELSE doc[nodes[1]].data \o SearchBuffer(doc, Tail(nodes))

Found(range) == [st |-> "found", range |-> range, err |-> ""]
NotFound == [st |-> "null", range |-> NullRange, err |-> ""]

Matched(st, matchIndex, start, end) ==
    [st |-> st, matchIndex |-> matchIndex, start |-> start, end |-> end]

\* step 7 of findARangeFromANodeList: the loop that looks for a word-bounded
\* occurrence from searchStart on; reading start[0] of a null start is a TypeError
RECURSIVE matchLoop(_, _, _, _, _)

\* steps 7.5 and on, with start and end set by steps 7.3 and 7.4
matchAtPoints(doc, searchBuffer, queryString, nodes, matchIndex, start, end) ==
    IF start = NullPoint \/ end = NullPoint THEN Matched("throw", matchIndex, start, end)
    ELSE IF ~isWordBounded(searchBuffer, matchIndex, Len(queryString))
         THEN matchLoop(doc, searchBuffer, queryString, nodes, matchIndex + 1)
    ELSE Matched("match", matchIndex, start, end)

\* steps 7.1 (its return) to 7.4, with matchIndex set by step 7.1
matchAtIndex(doc, searchBuffer, queryString, nodes, matchIndex) ==
    IF matchIndex = -1 THEN Matched("null", -1, NullPoint, NullPoint)
    ELSE matchAtPoints(doc, searchBuffer, queryString, nodes, matchIndex,
                       getBoundaryPointAtIndex(doc, matchIndex, nodes, FALSE),
                       getBoundaryPointAtIndex(doc, matchIndex + Len(queryString), nodes, TRUE))

matchLoop(doc, searchBuffer, queryString, nodes, searchStart) ==
    matchAtIndex(doc, searchBuffer, queryString, nodes,
                 IndexOfFrom(toLowerCase(searchBuffer), toLowerCase(queryString), searchStart))

\* a variant of EndInset that forgets step 9: endInset stays 0
NoEndInset(doc, sRange, nodes) == 0

\* steps 3-4 and 8-9 of findARangeFromANodeList
SearchStart(sRange, nodes) == IF Len(nodes) > 0 /\ nodes[1] = sRange.sc THEN sRange.so ELSE 0
EndInset(doc, sRange, nodes) ==
    IF Len(nodes) > 0 /\ nodes[Len(nodes)] = sRange.ec THEN Len(doc[sRange.ec].data) - sRange.eo ELSE 0

\* the range of step 12, or the exception of its setStart or setEnd
FoundOrThrown(made) == IF made.st = "throw" THEN made ELSE Found(made.range)

\* steps 10-12, with the outcome m of the loop of step 7
rangeOfMatch(doc, queryString, searchBuffer, endInset, m) ==
    IF m.st = "null" THEN NotFound
    ELSE IF m.st = "throw" THEN Throw("TypeError")
    ELSE IF m.matchIndex + Len(queryString) > Len(searchBuffer) - endInset THEN NotFound
    ELSE FoundOrThrown(MakeRange(doc, m.start, m.end))

\* steps 3-12, with the searchBuffer of step 2
searchInBuffer(doc, queryString, sRange, nodes, searchBuffer) ==
    rangeOfMatch(doc, queryString, searchBuffer, EndInset(doc, sRange, nodes),
                 matchLoop(doc, searchBuffer, queryString, nodes, SearchStart(sRange, nodes)))

findARangeFromANodeList(doc, queryString, sRange, nodes) ==
    searchInBuffer(doc, queryString, sRange, nodes, SearchBuffer(doc, nodes))

Walked(st, curNode, textNodeList, err) ==
    [st |-> st, curNode |-> curNode, list |-> textNodeList, err |-> err]

\* step 1.4.3 of findStringInRange: the text nodes of the block, and the node the walk stopped at
RECURSIVE collectTextNodes(_, _, _, _, _)

\* a variant of collectNode without step 1.4.3.1: the walk goes on at a block-level node
collectNodeAcrossBlocks(doc, sRange, blockAncestor, curNode, textNodeList, cmp) ==
    IF cmp.st = "throw" THEN Walked("throw", curNode, textNodeList, cmp.err)
    ELSE IF cmp.v = 1 THEN Walked("ok", curNode, textNodeList, "")
    ELSE IF isSearchInvisible(doc, curNode)
         THEN collectTextNodes(doc, sRange, blockAncestor,
                  nextNodeInShadowIncludingTreeOrderThatIsNotAShadowIncludingDescendantOf(doc, curNode),
                  textNodeList)
    ELSE collectTextNodes(doc, sRange, blockAncestor, nextNodeInShadowIncludingTreeOrder(doc, curNode),
             IF isVisibleTextNode(doc, curNode) THEN Append(textNodeList, curNode) ELSE textNodeList)

\* a variant of collectNode without step 1.4.3.2: search-invisible nodes are walked into
collectNodeAndInvisible(doc, sRange, blockAncestor, curNode, textNodeList, cmp) ==
    IF cmp.st = "throw" THEN Walked("throw", curNode, textNodeList, cmp.err)
    ELSE IF cmp.v = 1 THEN Walked("ok", curNode, textNodeList, "")
    ELSE IF hasBlockLevelDisplay(doc, curNode) THEN Walked("ok", curNode, textNodeList, "")
    ELSE collectTextNodes(doc, sRange, blockAncestor, nextNodeInShadowIncludingTreeOrder(doc, curNode),
             IF isVisibleTextNode(doc, curNode) THEN Append(textNodeList, curNode) ELSE textNodeList)

\* steps 1.4.3.1-1.4.3.4 for a curNode inside the block, with cmp the outcome of
\* searchRange.comparePoint(curNode, 0)
collectNode(doc, sRange, blockAncestor, curNode, textNodeList, cmp) ==
    IF cmp.st = "throw" THEN Walked("throw", curNode, textNodeList, cmp.err)
    ELSE IF cmp.v = 1 THEN Walked("ok", curNode, textNodeList, "")
    ELSE IF hasBlockLevelDisplay(doc, curNode) THEN Walked("ok", curNode, textNodeList, "")
    ELSE IF isSearchInvisible(doc, curNode)
         THEN collectTextNodes(doc, sRange, blockAncestor,
                  nextNodeInShadowIncludingTreeOrderThatIsNotAShadowIncludingDescendantOf(doc, curNode),
                  textNodeList)
    ELSE collectTextNodes(doc, sRange, blockAncestor, nextNodeInShadowIncludingTreeOrder(doc, curNode),
             IF isVisibleTextNode(doc, curNode) THEN Append(textNodeList, curNode) ELSE textNodeList)

collectTextNodes(doc, sRange, blockAncestor, curNode, textNodeList) ==
    IF curNode = NullNode \/ ~isShadowIncludingDescendant(doc, curNode, blockAncestor)
    THEN Walked("ok", curNode, textNodeList, "")
    ELSE collectNode(doc, sRange, blockAncestor, curNode, textNodeList,
                     ComparePoint(doc, sRange, curNode, 0))

\* the next node in shadow-including tree order that is not a doctype
RECURSIVE skipDoctypes(_, _)
skipDoctypes(doc, curNode) ==
    IF curNode # NullNode /\ doc[curNode].kind = "doctype"
    THEN skipDoctypes(doc, nextNodeInShadowIncludingTreeOrder(doc, curNode))
    ELSE curNode

\* The result of findStringInRange: st is "found" (match is the range found),
\* "null" or "throw"; range is sRange as the call left it (the caller's
\* Range object is moved by the search).
SearchResult(st, match, sRange, err) ==
    [st |-> st, match |-> match, range |-> sRange, err |-> err]

RECURSIVE findStringInRange(_, _, _)

\* the next pass of the loop of step 1, after searchRange.setStart(...) gave moved
searchMoved(doc, query, sRange, moved) ==
    IF moved.st = "throw" THEN SearchResult("throw", NullRange, sRange, moved.err)
    ELSE findStringInRange(doc, query, moved.range)

\* steps 1.2.1, 1.3.1 and 1.4.6: searchRange.setStart(curNode, 0)
searchFrom(doc, query, sRange, curNode) ==
    searchMoved(doc, query, sRange, SetStart(doc, sRange, curNode, 0))

\* steps 1.4.4-1.4.6, with the outcome of findARangeFromANodeList; the source
\* leaves the loop when curNode is null
searchedBlock(doc, query, sRange, curNode, resultingRange) ==
    IF resultingRange.st = "throw" THEN SearchResult("throw", NullRange, sRange, resultingRange.err)
    ELSE IF resultingRange.st = "found" THEN SearchResult("found", resultingRange.range, sRange, "")
    ELSE IF curNode = NullNode THEN SearchResult("null", NullRange, sRange, "")
    ELSE searchFrom(doc, query, sRange, curNode)

\* step 1.4.4, with the text nodes the walk of step 1.4.3 collected
searchBlock(doc, query, sRange, walk) ==
    IF walk.st = "throw" THEN SearchResult("throw", NullRange, sRange, walk.err)
    ELSE searchedBlock(doc, query, sRange, walk.curNode,
                       findARangeFromANodeList(doc, query, sRange, walk.list))

findStringInRange(doc, query, sRange) ==
    IF Collapsed(sRange) THEN SearchResult("null", NullRange, sRange, "")
    ELSE IF partOfNonSearchableSubtree(doc, sRange.sc)
         THEN searchFrom(doc, query, sRange,
                  nextNodeInShadowIncludingTreeOrderThatIsNotAShadowIncludingDescendantOf(doc, sRange.sc))
    ELSE IF ~isVisibleTextNode(doc, sRange.sc)
         THEN searchFrom(doc, query, sRange,
                  skipDoctypes(doc, nextNodeInShadowIncludingTreeOrder(doc, sRange.sc)))
    ELSE searchBlock(doc, query, sRange,
             collectTextNodes(doc, sRange, nearestBlockAncestorOf(doc, sRange.sc), sRange.sc, <<>>))

---------------------------------------------------------------------------
(* Whitespace skipping *)

\* substringData(node, offset, count): the string, or IndexSizeError
Data(s) == [st |-> "ok", s |-> s, err |-> ""]

\* a variant of substringData whose step 2 also rejects an offset equal to the length
substringDataBelowLength(doc, node, offset, count) ==
    IF offset >= nodeLength(doc, node) THEN [st |-> "throw", s |-> "", err |-> "IndexSizeError"]
    ELSE IF offset + count > nodeLength(doc, node) THEN Data(Substring1(doc[node].data, offset))
    ELSE Data(Substring2(doc[node].data, offset, offset + count))

substringData(doc, node, offset, count) ==
    IF offset > nodeLength(doc, node) THEN [st |-> "throw", s |-> "", err |-> "IndexSizeError"]
    ELSE IF offset + count > nodeLength(doc, node) THEN Data(Substring1(doc[node].data, offset))
    ELSE Data(Substring2(doc[node].data, offset, offset + count))

\* step 1.8: at the end of the node, move to the next node
AtNodeEndMoveOn(doc, moved, node) ==
    IF moved.st = "throw" THEN moved
    ELSE IF moved.range.so = nodeLength(doc, node)
         THEN SetStart(doc, moved.range, nextNodeInShadowIncludingTreeOrder(doc, node), 0)
         ELSE moved

RECURSIVE advanceRangeStartToNextNonWhitespacePosition(_, _)

\* the next pass of the loop of step 1, after range.setStart(...) gave moved
advanceMoved(doc, moved) ==
    IF moved.st = "throw" THEN moved
    ELSE advanceRangeStartToNextNonWhitespacePosition(doc, moved.range)

\* steps 1.5-1.8, with the substring data of counts 6 and 5 at the start
advanceInText(doc, range, six, five) ==
    IF six.st = "throw" THEN Throw(six.err)
    ELSE IF /\ six.s # "&nbsp;"
            /\ five.s # "&nbsp"
            /\ ~hasWhiteSpaceProperty(CharAt(doc[range.sc].data, range.so))
         THEN Ok(range)
    ELSE advanceMoved(doc,
             AtNodeEndMoveOn(doc,
                 SetStart(doc, range, range.sc,
                          range.so + (IF six.s = "&nbsp;" THEN 6 ELSE IF five.s = "&nbsp" THEN 5 ELSE 1)),
                 range.sc))

advanceRangeStartToNextNonWhitespacePosition(doc, range) ==
    IF Collapsed(range) THEN Ok(range)
    ELSE IF partOfNonSearchableSubtree(doc, range.sc)
         THEN advanceMoved(doc, SetStart(doc, range,
                  nextNodeInShadowIncludingTreeOrderThatIsNotAShadowIncludingDescendantOf(doc, range.sc), 0))
    ELSE IF ~isVisibleTextNode(doc, range.sc)
         THEN advanceMoved(doc, SetStart(doc, range, nextNodeInShadowIncludingTreeOrder(doc, range.sc), 0))
    ELSE advanceInText(doc, range, substringData(doc, range.sc, range.so, 6),
                       substringData(doc, range.sc, range.so, 5))

\* the two operations on a range just made, whose exception propagates
ThenAdvance(doc, made) ==
    IF made.st = "throw" THEN made
    ELSE advanceRangeStartToNextNonWhitespacePosition(doc, made.range)
ThenFindString(doc, query, made) ==
    IF made.st = "throw" THEN SearchResult("throw", NullRange, NullRange, made.err)
    ELSE findStringInRange(doc, query, made.range)

---------------------------------------------------------------------------
(* findRangeFromTextDirective: one pass through the body of its loop.      *)
(* The outcome is "return" (found tells a range from null), "continue", or *)
(* "throw"; sRange is searchRange as the pass left it.  A search moves the *)
(* Range object it is given: the range field of its result is that object  *)
(* after the search, and it is what the source's later reads of matchRange *)
(* and suffixRange see.                                                    *)

Outcome(st, found, range, sRange, err) ==
    [st |-> st, found |-> found, range |-> range, searchRange |-> sRange, err |-> err]
ReturnNull(sRange) == Outcome("return", FALSE, NullRange, sRange, "")
ReturnRange(range, sRange) == Outcome("return", TRUE, range, sRange, "")
Continue(sRange) == Outcome("continue", FALSE, NullRange, sRange, "")
Throws(err, sRange) == Outcome("throw", FALSE, NullRange, sRange, err)

\* steps 2.9-2.10, with the outcome of the search for the suffix
suffixSearched(potentialMatch, sRange, suffixMatch) ==
    IF suffixMatch.st = "throw" THEN Throws(suffixMatch.err, sRange)
    ELSE IF suffixMatch.st = "null" THEN ReturnNull(sRange)
    ELSE IF samePoint(getStart(suffixMatch.match), getStart(suffixMatch.range))
         THEN ReturnRange(potentialMatch, sRange)
    ELSE Continue(sRange)

\* steps 2.5-2.10: with no suffix the match is returned, else the suffix is looked for
confirmSuffix(doc, pv, potentialMatch, sRange) ==
    IF IsNull(pv.suffix) THEN ReturnRange(potentialMatch, sRange)
    ELSE suffixSearched(potentialMatch, sRange,
             ThenFindString(doc, Val(pv.suffix),
                 ThenAdvance(doc, MakeRange(doc, getEnd(potentialMatch), getEnd(sRange)))))

\* the suffix steps, after potentialMatch.setEnd(...) gave extended
textEndSet(doc, pv, sRange, extended) ==
    IF extended.st = "throw" THEN Throws(extended.err, sRange)
    ELSE confirmSuffix(doc, pv, extended.range, sRange)

\* steps 2.2.11.3-2.2.11.4 and 2.3.4.3-2.3.4.4, with the outcome of the search for textEnd
textEndSearched(doc, pv, potentialMatch, sRange, textEndMatch) ==
    IF textEndMatch.st = "throw" THEN Throws(textEndMatch.err, sRange)
    ELSE IF textEndMatch.st = "null" THEN ReturnNull(sRange)
    ELSE textEndSet(doc, pv, sRange, SetEndAt(doc, potentialMatch, getEnd(textEndMatch.match)))

\* the textEnd steps (2.2.11 and 2.3.4), then the suffix steps
extendToTextEnd(doc, pv, potentialMatch, sRange) ==
    IF IsNull(pv.textEnd) THEN confirmSuffix(doc, pv, potentialMatch, sRange)
    ELSE textEndSearched(doc, pv, potentialMatch, sRange,
             ThenFindString(doc, Val(pv.textEnd),
                 MakeRange(doc, getEnd(potentialMatch), getEnd(sRange))))

\* steps 2.2.9-2.2.11, with the outcome of the search for textStart in matchRange
textStartSearched(doc, pv, sRange, potentialMatch) ==
    IF potentialMatch.st = "throw" THEN Throws(potentialMatch.err, sRange)
    ELSE IF potentialMatch.st = "null" THEN ReturnNull(sRange)
    ELSE IF ~samePoint(getStart(potentialMatch.match), getStart(potentialMatch.range))
         THEN Continue(sRange)
    ELSE extendToTextEnd(doc, pv, potentialMatch.match, sRange)

\* steps 2.2.6-2.2.8, with matchRange advanced by step 2.2.5
matchRangeAdvanced(doc, pv, sRange, matchRange) ==
    IF matchRange.st = "throw" THEN Throws(matchRange.err, sRange)
    ELSE IF Collapsed(matchRange.range) THEN ReturnNull(sRange)
    ELSE textStartSearched(doc, pv, sRange,
             findStringInRange(doc, Val(pv.textStart), matchRange.range))

\* steps 2.2.4-2.2.5, after searchRange.setStart(...) of step 2.2.3 gave advanced
prefixPassed(doc, pv, prefixMatch, advanced) ==
    IF advanced.st = "throw" THEN Throws(advanced.err, prefixMatch.range)
    ELSE matchRangeAdvanced(doc, pv, advanced.range,
             ThenAdvance(doc, MakeRange(doc, getEnd(prefixMatch.match), getEnd(advanced.range))))

\* steps 2.2.2-2.2.3, with the outcome of the search for the prefix
prefixSearched(doc, pv, prefixMatch) ==
    IF prefixMatch.st = "throw" THEN Throws(prefixMatch.err, prefixMatch.range)
    ELSE IF prefixMatch.st = "null" THEN ReturnNull(prefixMatch.range)
    ELSE prefixPassed(doc, pv, prefixMatch,
             SetStartAt(doc, prefixMatch.range,
                        firstBoundaryPointAfter(doc, getStart(prefixMatch.match))))

\* step 2.2: the branch taken when the directive has a prefix
withPrefix(doc, pv, sRange) ==
    prefixSearched(doc, pv, findStringInRange(doc, Val(pv.prefix), sRange))

\* step 2.3.4, after searchRange.setStart(...) of step 2.3.3 gave advanced
textStartPassed(doc, pv, potentialMatch, advanced) ==
    IF advanced.st = "throw" THEN Throws(advanced.err, potentialMatch.range)
    ELSE extendToTextEnd(doc, pv, potentialMatch.match, advanced.range)

\* steps 2.3.2-2.3.3, with the outcome of the search for textStart in searchRange
textStartFound(doc, pv, potentialMatch) ==
    IF potentialMatch.st = "throw" THEN Throws(potentialMatch.err, potentialMatch.range)
    ELSE IF potentialMatch.st = "null" THEN ReturnNull(potentialMatch.range)
    ELSE textStartPassed(doc, pv, potentialMatch,
             SetStartAt(doc, potentialMatch.range,
                        firstBoundaryPointAfter(doc, getStart(potentialMatch.match))))

\* step 2.3: the branch taken when it has none
withoutPrefix(doc, pv, sRange) ==
    textStartFound(doc, pv, findStringInRange(doc, Val(pv.textStart), sRange))

loopBody(doc, pv, sRange) ==
    IF ~IsNull(pv.prefix)
    THEN withPrefix(doc, pv, sRange)
    ELSE withoutPrefix(doc, pv, sRange)

\* step 1: sRange spans the document
InitialSearchRange(doc) == Range(<<1, 0>>, <<1, Len(Children(doc, 1))>>)

---------------------------------------------------------------------------
(* The documents the resolver is run on.  A document is the document node, *)
(* an optional doctype, and an html element whose children are given by a  *)
(* list of items.                                                          *)

Item(kind, text) == [kind |-> kind, text |-> text]

\* the nodes one item adds under parent, the first of them getting the id first
ItemNodes(item, parent, first) ==
    CASE item.kind = "text"    -> <<TextNode(parent, item.text)>>
      [] item.kind = "p"       -> <<ElementNode(parent, "p", "block", "visible"), TextNode(first, item.text)>>
      [] item.kind = "span"    -> <<ElementNode(parent, "span", "inline", "visible"), TextNode(first, item.text)>>
      [] item.kind = "none"    -> <<ElementNode(parent, "span", "none", "visible"), TextNode(first, item.text)>>
      [] item.kind = "hidden"  -> <<ElementNode(parent, "span", "inline", "hidden"), TextNode(first, item.text)>>
      [] item.kind = "div"     -> <<ElementNode(parent, "div", "block", "visible")>>
      [] item.kind = "br"      -> <<ElementNode(parent, "br", "inline", "visible")>>
      [] item.kind = "comment" -> <<CommentNode(parent, item.text)>>
      [] item.kind = "shadow"  -> <<HostNode(parent, "div", "block", first + 1), ShadowRootNode(first),
                                    ElementNode(first + 1, "span", "inline", "visible"),
                                    TextNode(first + 2, item.text)>>
      \* an element with the hidden attribute
      [] item.kind = "notrendered" ->
             <<Node("element", parent, "", "span", "inline", "visible", TRUE, NullNode, NullNode),
               TextNode(first, item.text)>>
      \* a text, an undisplayed text and a text, in one element
      [] item.kind = "mixed"   -> <<ElementNode(parent, "span", "inline", "visible"), TextNode(first, item.text),
                                    ElementNode(first, "span", "none", "visible"),
                                    TextNode(first + 2, item.text), TextNode(first, item.text)>>
      \* a text, a block with a text and a text, in one element
      [] item.kind = "blockin" -> <<ElementNode(parent, "span", "inline", "visible"), TextNode(first, item.text),
                                    ElementNode(first, "div", "block", "visible"),
                                    TextNode(first + 2, item.text), TextNode(first, item.text)>>
      \* two texts around an undisplayed element that holds a block
      [] item.kind = "around"  -> <<TextNode(parent, item.text),
                                    ElementNode(parent, "span", "none", "visible"),
                                    ElementNode(first + 1, "div", "block", "visible"),
                                    TextNode(parent, item.text)>>
      \* a host with a text in its shadow tree and a text child of its own
      [] item.kind = "host"    -> <<HostNode(parent, "div", "block", first + 1), ShadowRootNode(first),
                                    TextNode(first + 1, item.text), TextNode(first, item.text)>>
      \* an inline host
      [] item.kind = "inlinehost" -> <<HostNode(parent, "span", "inline", first + 1), ShadowRootNode(first),
                                       TextNode(first + 1, item.text)>>
      \* a host that is not displayed
      [] item.kind = "nonehost" -> <<HostNode(parent, "div", "none", first + 1), ShadowRootNode(first),
                                     TextNode(first + 1, item.text)>>
      \* a host inside an element that is not displayed
      [] item.kind = "under"   -> <<ElementNode(parent, "span", "none", "visible"),
                                    HostNode(first, "div", "block", first + 2), ShadowRootNode(first + 1),
                                    TextNode(first + 2, item.text)>>

RECURSIVE AppendItems(_, _, _)
AppendItems(doc, parent, items) ==
    IF items = <<>> THEN doc
    ELSE AppendItems(doc \o ItemNodes(Head(items), parent, Len(doc) + 1), parent, Tail(items))

Build(withDoctype, items) ==
    LET top == IF withDoctype THEN <<DocumentNode, DoctypeNode(1)>> ELSE <<DocumentNode>>
    IN  AppendItems(Append(top, ElementNode(1, "html", "block", "visible")), Len(top) + 1, items)

\* a document without children
EmptyDocument == <<DocumentNode>>

MaxItems == 2

ItemPool ==
    {Item("p", "a"), Item("p", "b"), Item("p", "a c"), Item("p", "a b"), Item("p", "a bb"),
     Item("span", "a"), Item("span", " b"), Item("text", "b"),
     Item("none", "b"), Item("hidden", "b"), Item("shadow", "b"),
     Item("div", ""), Item("br", ""), Item("comment", "b")}

ItemLists == UNION {[1..n -> ItemPool] : n \in 0..MaxItems}

Documents == {EmptyDocument} \cup {Build(dt, items) : dt \in BOOLEAN, items \in ItemLists}

\* the parsed directives the resolver is given
Directive(prefix, textStart, textEnd, suffix) ==
    [textStart |-> textStart, textEnd |-> textEnd, prefix |-> prefix, suffix |-> suffix]

DirectivePool ==
    {Directive(prefix, textStart, textEnd, suffix) :
        prefix \in {Null, Some("a")}, textStart \in {Some("a"), Some("b"), Some("z")},
        textEnd \in {Null, Some("b")}, suffix \in {Null, Some("b")}}

---------------------------------------------------------------------------
(* findRangeFromTextDirective, one pass of its loop per step *)

InitFind ==
    /\ document \in Documents
    /\ \E d \in DirectivePool : parsedValues = ParsedOk(d)
    /\ input = ""
    /\ pc = "find"
    /\ searchRange = InitialSearchRange(document)
    /\ result = ReturnNull(searchRange)
    /\ directives = <<>>
    /\ ranges = <<>>

\* where the pass leaves the function: in the loop, returned, or thrown out of
Passed(outcome) ==
    /\ result' = outcome
    /\ searchRange' = outcome.searchRange
    /\ pc' = CASE outcome.st = "continue" -> "find"
               [] outcome.st = "return" -> "returned"
               [] outcome.st = "throw" -> "threw"

\* step 2: one pass through the body of the loop
LoopPass ==
    /\ pc = "find"
    /\ ~Collapsed(searchRange)
    /\ Passed(loopBody(document, parsedValues.value, searchRange))
    /\ UNCHANGED <<document, input, parsedValues, directives, ranges>>

\* the loop ends with searchRange collapsed: null is returned
LoopExit ==
    /\ pc = "find"
    /\ Collapsed(searchRange)
    /\ result' = ReturnNull(searchRange)
    /\ pc' = "returned"
    /\ UNCHANGED <<document, input, parsedValues, searchRange, directives, ranges>>

NextFind == LoopPass \/ LoopExit

SpecFind == InitFind /\ [][NextFind]_vars

---------------------------------------------------------------------------
(* Claims about the resolver, checked under SpecFind *)

Finished == pc \in {"returned", "threw"}
ReturnedRange == pc = "returned" /\ result.found

\* whether the text of node n can be searched: visible, outside every non-searchable subtree
Searchable(doc, n) == isVisibleTextNode(doc, n) /\ ~partOfNonSearchableSubtree(doc, n)

\* the searchable text of the nodes from..to, in tree order
RECURSIVE TextOfNodes(_, _, _)
TextOfNodes(doc, from, to) ==
    IF from > to THEN ""
    ELSE (IF Searchable(doc, from) THEN doc[from].data ELSE "") \o TextOfNodes(doc, from + 1, to)

\* the searchable text before and after a boundary point in a text node
TextBefore(doc, point) ==
    TextOfNodes(doc, 1, point[1] - 1) \o Substring2(doc[point[1]].data, 0, point[2])
TextAfter(doc, point) ==
    Substring1(doc[point[1]].data, point[2]) \o TextOfNodes(doc, point[1] + 1, Len(doc))

RECURSIVE TrimEnd(_)
TrimEnd(s) ==
    IF s # "" /\ hasWhiteSpaceProperty(CharAt(s, Len(s) - 1)) THEN TrimEnd(Substring2(s, 0, Len(s) - 1)) ELSE s
RECURSIVE TrimStart(_)
TrimStart(s) ==
    IF s # "" /\ hasWhiteSpaceProperty(CharAt(s, 0)) THEN TrimStart(Substring1(s, 1)) ELSE s

\* no text node of the document holds the first character of textStart
TextStartAbsent ==
    \A n \in Nodes(document) :
        document[n].kind = "text" =>
            IndexOfFrom(toLowerCase(document[n].data),
                        toLowerCase(CharAt(Val(parsedValues.value.textStart), 0)), 0) = -1

\* C6: when textStart occurs nowhere in the document, findRangeFromTextDirective
\* finishes by returning null; it does not throw.
C6_ExhaustionReturnsNull ==
    (Finished /\ TextStartAbsent) => (pc = "returned" /\ ~result.found)

\* C7: a range returned for a directive with a prefix starts right after an
\* occurrence of the prefix, only whitespace lying between the two.
C7_PrefixPrecedesMatch ==
    (ReturnedRange /\ ~IsNull(parsedValues.value.prefix)) =>
        EndsWith(toLowerCase(TrimEnd(TextBefore(document, getStart(result.range)))),
                 toLowerCase(Val(parsedValues.value.prefix)))

\* C8: a range returned for a directive with a suffix is followed by the
\* suffix, which starts at the first non-whitespace position after the range.
C8_SuffixFollowsMatch ==
    (ReturnedRange /\ ~IsNull(parsedValues.value.suffix)) =>
        StartsWith(toLowerCase(TrimStart(TextAfter(document, getEnd(result.range)))),
                   toLowerCase(Val(parsedValues.value.suffix)))

\* textStart occurs in text at index i with the suffix right after it, the
\* suffix ending at a word boundary; with no prefix textStart starts at a word
\* boundary, with one the prefix starts at a word boundary and only
\* whitespace lies between it and textStart
FollowedBySuffixAt(text, pv, i) ==
    /\ StartsWithAt(text, toLowerCase(Val(pv.textStart)), i)
    /\ StartsWithAt(text, toLowerCase(Val(pv.suffix)), i + Len(Val(pv.textStart)))
    /\ BoundaryMatchAt(text, i + Len(Val(pv.textStart)) + Len(Val(pv.suffix)))
    /\ IF IsNull(pv.prefix) THEN BoundaryMatchAt(text, i)
       ELSE /\ EndsWith(TrimEnd(Substring2(text, 0, i)), toLowerCase(Val(pv.prefix)))
            /\ BoundaryMatchAt(text, Len(TrimEnd(Substring2(text, 0, i))) - Len(Val(pv.prefix)))

\* some searchable text node holds such an occurrence
OccurrenceBeforeSuffix ==
    \E n \in Nodes(document) :
        /\ Searchable(document, n)
        /\ \E i \in 0..Len(document[n].data) :
               FollowedBySuffixAt(toLowerCase(document[n].data), parsedValues.value, i)

\* C12: which ends of textStart must be at word boundaries depends on the
\* other fields: its start only when there is no prefix, its end only when
\* there is a textEnd or no suffix.  So a directive with a suffix and no
\* textEnd resolves to a range whenever textStart occurs with the suffix
\* right after it, also inside one word.
C12_TextStartBoundsFollowFields ==
    (/\ Finished
     /\ IsNull(parsedValues.value.textEnd)
     /\ ~IsNull(parsedValues.value.suffix)
     /\ OccurrenceBeforeSuffix) => ReturnedRange

\* The searchable text of the document is the concatenation of its block
\* text runs.  Two searchable text nodes are in one run when they have the
\* same nearest block ancestor and no element with block-level display that
\* the search would come upon lies between them in tree order.
AllText(doc) == TextOfNodes(doc, 1, Len(doc))
TextIndex(doc, point) == Len(TextBefore(doc, point))

EndsRun(doc, k) == hasBlockLevelDisplay(doc, k) /\ ~partOfNonSearchableSubtree(doc, doc[k].parent)
SameRun(doc, m, n) ==
    /\ Searchable(doc, m) /\ Searchable(doc, n)
    /\ nearestBlockAncestorOf(doc, m) = nearestBlockAncestorOf(doc, n)
    /\ \A k \in Nodes(doc) : ((m < k /\ k < n) \/ (n < k /\ k < m)) => ~EndsRun(doc, k)

\* the indexes in the searchable text where the run of node n starts and ends
RunStart(doc, n) ==
    Len(TextOfNodes(doc, 1, (CHOOSE m \in Nodes(doc) :
            SameRun(doc, m, n) /\ \A k \in Nodes(doc) : SameRun(doc, k, n) => m <= k) - 1))
RunEnd(doc, n) ==
    Len(TextOfNodes(doc, 1, CHOOSE m \in Nodes(doc) :
            SameRun(doc, m, n) /\ \A k \in Nodes(doc) : SameRun(doc, k, n) => k <= m))

\* query occurs at index g of the searchable text, inside the run from a to b,
\* case set aside, as a word of that run
OccursInRun(text, query, g, a, b) ==
    /\ a <= g /\ g + Len(query) <= b
    /\ StartsWithAt(toLowerCase(text), toLowerCase(query), g)
    /\ BoundaryMatchAt(Substring2(text, a, b), g - a)
    /\ BoundaryMatchAt(Substring2(text, a, b), g + Len(query) - a)

\* the indexes in the searchable text of the word-bounded occurrences of query
Occurrences(doc, query) ==
    {g \in 0..Len(AllText(doc)) :
        \E n \in Nodes(doc) :
            /\ Searchable(doc, n)
            /\ OccursInRun(AllText(doc), query, g, RunStart(doc, n), RunEnd(doc, n))}

\* the range returned starts at an occurrence of textStart and ends at the
\* end of the first occurrence of textEnd that starts at the end of that
\* occurrence of textStart or later
EndsAtFirstTextEnd(doc, pv, range) ==
    /\ TextIndex(doc, getStart(range)) \in Occurrences(doc, Val(pv.textStart))
    /\ TextIndex(doc, getEnd(range)) - Len(Val(pv.textEnd)) \in Occurrences(doc, Val(pv.textEnd))
    /\ \A g \in Occurrences(doc, Val(pv.textEnd)) :
           g >= TextIndex(doc, getStart(range)) + Len(Val(pv.textStart))
               => g >= TextIndex(doc, getEnd(range)) - Len(Val(pv.textEnd))

\* C13: with a textEnd, the range returned starts where the textStart match
\* starts and ends where the first occurrence of textEnd after that match
\* ends, hence not before the end of the textStart match; and when textEnd
\* occurs nowhere in the document the call returns null in the pass that
\* found textStart (here: with no prefix, in its first pass).
C13_TextEndExtendsMatch ==
    [][/\ (ReturnedRange /\ ~IsNull(parsedValues.value.textEnd))' =>
              EndsAtFirstTextEnd(document, parsedValues.value, result.range)'
       /\ (/\ pc = "find"
           /\ ~IsNull(parsedValues.value.textEnd)
           /\ IsNull(parsedValues.value.prefix)
           /\ Occurrences(document, Val(parsedValues.value.textStart)) # {}
           /\ Occurrences(document, Val(parsedValues.value.textEnd)) = {})
              => (pc' = "returned" /\ ~result'.found)]_vars

\* searchRange's start after a pass of the loop is strictly later than before it
StartAdvances == Position(document, getStart(searchRange'), getStart(searchRange)) = "after"

\* C14: findRangeFromTextDirective terminates: every pass of its loop either
\* returns a range or null, or leaves searchRange's start strictly later
\* than it was, so that the call ends by returning a range or null.
C14_ResolverTerminates ==
    [][/\ pc' # "threw"
       /\ pc' = "find" => StartAdvances]_vars

\* only textStart is given
OnlyTextStart(pv) == IsNull(pv.prefix) /\ IsNull(pv.textEnd) /\ IsNull(pv.suffix)

\* the first of a non-empty set of indexes
First(indexes) == CHOOSE g \in indexes : \A h \in indexes : g <= h

\* range spans the first word-bounded occurrence of query in the searchable text
IsFirstOccurrence(doc, query, range) ==
    /\ Occurrences(doc, query) # {}
    /\ TextIndex(doc, getStart(range)) = First(Occurrences(doc, query))
    /\ TextIndex(doc, getEnd(range)) = First(Occurrences(doc, query)) + Len(query)

\* C16: with only textStart given, findRangeFromTextDirective finishes with
\* the first word-bounded, case-insensitive occurrence of textStart among the
\* searchable block text runs, and with null exactly when there is none.
C16_FirstOccurrenceReturned ==
    (Finished /\ OnlyTextStart(parsedValues.value)) =>
        /\ pc = "returned"
        /\ IF result.found
           THEN IsFirstOccurrence(document, Val(parsedValues.value.textStart), result.range)
           ELSE Occurrences(document, Val(parsedValues.value.textStart)) = {}

\* the units of text from index a up to index b are all whitespace
RECURSIVE OnlyWhitespace(_, _, _)
OnlyWhitespace(text, a, b) ==
    a >= b \/ (hasWhiteSpaceProperty(CharAt(text, a)) /\ OnlyWhitespace(text, a + 1, b))

\* the word-bounded occurrences of textStart that follow a word-bounded
\* occurrence of prefix after nothing but whitespace
AfterPrefix(doc, prefix, textStart) ==
    {g \in Occurrences(doc, textStart) :
        \E h \in Occurrences(doc, prefix) :
            /\ h + Len(prefix) <= g
            /\ OnlyWhitespace(AllText(doc), h + Len(prefix), g)}

\* only prefix and textStart are given
PrefixAndTextStart(pv) == ~IsNull(pv.prefix) /\ IsNull(pv.textEnd) /\ IsNull(pv.suffix)

\* C23: when some word-bounded occurrence of the prefix is followed, after
\* only whitespace, by a word-bounded occurrence of textStart,
\* findRangeFromTextDirective for {prefix, textStart} returns a range that
\* starts at the first such occurrence of textStart.
C23_PrefixMatchingComplete ==
    (/\ Finished /\ PrefixAndTextStart(parsedValues.value)
     /\ AfterPrefix(document, Val(parsedValues.value.prefix), Val(parsedValues.value.textStart)) # {})
        => /\ ReturnedRange
           /\ TextIndex(document, getStart(result.range)) =
                  First(AfterPrefix(document, Val(parsedValues.value.prefix), Val(parsedValues.value.textStart)))

\* C25: no resolution ends with the IndexSizeError of substringData: every
\* offset advanceRangeStartToNextNonWhitespacePosition asks for is at most
\* the length of the text node it reads.
C25_NoIndexSizeError ==
    pc = "threw" => result.err # "IndexSizeError"

\* a resolution with a prefix that ends at the end of its text node, where
\* the substring is asked for at an offset equal to the node's length
C25_Witness ==
    /\ ReturnedRange
    /\ document = Build(FALSE, <<Item("p", "a"), Item("p", "b")>>)
    /\ parsedValues.value.prefix = Some("a")
    /\ parsedValues.value.textStart = Some("b")

\* C27: in every pass of findRangeFromTextDirective searchRange's end stays
\* at (document, document's length) and its start does not move to an
\* earlier position.
C27_CursorOnlyMovesForward ==
    [][/\ samePoint(getEnd(searchRange'), getEnd(InitialSearchRange(document)))
       /\ Position(document, getStart(searchRange'), getStart(searchRange)) # "before"]_vars

---------------------------------------------------------------------------
(* processFragmentDirective, one directive per step *)

isValidFragmentDirective(fragmentDirectiveInput) == TRUE
isTextFragmentDirective(directive) == StartsWith(directive, "text=")

\* findRangeFromTextDirective run to its end: the outcome of the pass that leaves the loop
RECURSIVE findRangeFrom(_, _, _)
afterPass(doc, pv, outcome) ==
    IF outcome.st = "continue" THEN findRangeFrom(doc, pv, outcome.searchRange) ELSE outcome
findRangeFrom(doc, pv, sRange) ==
    IF Collapsed(sRange) THEN ReturnNull(sRange)
    ELSE afterPass(doc, pv, loopBody(doc, pv, sRange))

findRangeFromTextDirective(pv, doc) == findRangeFrom(doc, pv, InitialSearchRange(doc))

\* ranges.push(range), front to back
PushRangeInFront(list, range) == <<range>> \o list
PushRange(list, range) == Append(list, range)

MaxDirectives == 3

DirectivePieces == {"text=a", "text=b", "text=z", "text=a-,b", "text=", "text=%", "foo"}

FragmentDirectiveInputs ==
    {Join(pieces, "&") : pieces \in UNION {[1..n -> DirectivePieces] : n \in 1..MaxDirectives}}

ProcessDocuments ==
    {Build(TRUE, <<Item("p", "a b")>>),
     Build(TRUE, <<Item("p", "b"), Item("span", "a")>>),
     Build(TRUE, <<Item("p", "a c"), Item("p", "b")>>),
     Build(TRUE, <<Item("p", "a"), Item("br", "")>>)}

InitProcess ==
    /\ document \in ProcessDocuments
    /\ input \in FragmentDirectiveInputs
    /\ pc = "process"
    /\ parsedValues = ParsedNull
    /\ result = <<>>
    /\ searchRange = Null
    /\ directives = <<>>
    /\ ranges = <<>>

\* steps 1-3: the input is split on "&" and ranges starts empty
SplitDirectives ==
    /\ pc = "process"
    /\ isValidFragmentDirective(input)
    /\ directives' = Split(input, "&")
    /\ ranges' = <<>>
    /\ pc' = "directives"
    /\ UNCHANGED <<document, input, parsedValues, result, searchRange>>

\* step 4.4, with the outcome of findRangeFromTextDirective
RangeSought(found) ==
    IF found.st = "throw"
    THEN /\ pc' = "threw"
         /\ result' = <<found.err>>
         /\ UNCHANGED ranges
    ELSE /\ ranges' = IF found.found THEN PushRange(ranges, found.range) ELSE ranges
         /\ UNCHANGED <<result, pc>>

\* steps 4.2-4.4, with the outcome of parseTextDirective
DirectiveParsed(parsed) ==
    /\ parsedValues' = parsed
    /\ IF parsed.kind = "throw"
       THEN /\ pc' = "threw"
            /\ result' = <<"URIError">>
            /\ UNCHANGED ranges
       ELSE IF parsed.kind = "null"
       THEN UNCHANGED <<ranges, result, pc>>
       ELSE RangeSought(findRangeFromTextDirective(parsed.value, document))

\* step 4: the body of the loop, for the next directive
ProcessDirective ==
    /\ pc = "directives"
    /\ directives # <<>>
    /\ directives' = Tail(directives)
    /\ IF ~isTextFragmentDirective(Head(directives))
       THEN UNCHANGED <<parsedValues, ranges, result, pc>>
       ELSE DirectiveParsed(parseTextDirective(Head(directives)))
    /\ UNCHANGED <<document, input, searchRange>>

\* step 5: ranges is returned
ReturnRanges ==
    /\ pc = "directives"
    /\ directives = <<>>
    /\ result' = ranges
    /\ pc' = "returned"
    /\ UNCHANGED <<document, input, parsedValues, searchRange, directives, ranges>>

NextProcess == SplitDirectives \/ ProcessDirective \/ ReturnRanges

SpecProcess == InitProcess /\ [][NextProcess]_vars

---------------------------------------------------------------------------
(* Claims about processFragmentDirective, checked under SpecProcess *)

\* C4: processFragmentDirective does not abort: whatever its directives are,
\* it never ends by throwing.
C4_NeverAborts == pc # "threw"

\* what one directive adds to the list: nothing, or the range it resolves to
ResultOf(doc, directive) ==
    IF ~isTextFragmentDirective(directive) THEN <<>>
    ELSE LET parsed == parseTextDirective(directive)
         IN  IF parsed.kind # "ok" THEN <<>>
             ELSE LET found == findRangeFromTextDirective(parsed.value, doc)
                  IN  IF found.st = "return" /\ found.found THEN <<found.range>> ELSE <<>>

\* the non-null results of the directives, left to right
RECURSIVE NonNullResults(_, _)
NonNullResults(doc, list) ==
    IF list = <<>> THEN <<>> ELSE ResultOf(doc, Head(list)) \o NonNullResults(doc, Tail(list))

AllDirectives == Split(input, "&")
Processed == SubSeq(AllDirectives, 1, Len(AllDirectives) - Len(directives))
TextDirectivesIn(list) == {k \in 1..Len(list) : isTextFragmentDirective(list[k])}

\* C5: the ranges found so far are the non-null results of the directives
\* processed so far, in the order of the input, no more of them than there are
\* text= directives; the list returned is that of all the directives.
C5_RangesInInputOrder ==
    /\ pc = "directives" =>
          /\ ranges = NonNullResults(document, Processed)
          /\ Len(ranges) <= Cardinality(TextDirectivesIn(Processed))
    /\ pc = "returned" =>
          /\ result = NonNullResults(document, AllDirectives)
          /\ Len(result) <= Cardinality(TextDirectivesIn(AllDirectives))

\* two directives resolved, a skipped one between them, the later one's range
\* lying before the earlier one's in the document
C5_Witness ==
    /\ pc = "returned"
    /\ input = "text=b&text=z&text=a"
    /\ Len(result) = 2
    /\ result[1].sc = result[2].sc
    /\ result[2].so < result[1].so

---------------------------------------------------------------------------
(* The two searches run on their own: a block whose text lies in two text  *)
(* nodes, a query, and a range to search in.                               *)

MaxStart == 5
MaxInset == 1

Buffers == {"say hello now", "concatenate", "the cat sat", "catcat Cat", "Hello", "Hello world", "catcat Cat t"}
Queries == {"Hello", "cat", "CAT", "o", "hello now"}

\* the buffer in two inline elements, cut at index cut
SearchDocument(buffer, cut) ==
    Build(FALSE, <<Item("span", Substring2(buffer, 0, cut)), Item("span", Substring1(buffer, cut))>>)

SearchDocuments == UNION {{SearchDocument(buffer, cut) : cut \in 0..Len(buffer)} : buffer \in Buffers}

\* the Text nodes of a document, in tree order
RECURSIVE TextNodesFrom(_, _)
TextNodesFrom(doc, n) ==
    IF n > Len(doc) THEN <<>>
    ELSE (IF doc[n].kind = "text" THEN <<n>> ELSE <<>>) \o TextNodesFrom(doc, n + 1)
TextNodes(doc) == TextNodesFrom(doc, 1)

Min(a, b) == IF a < b THEN a ELSE b

\* ranges that start in the first text node or at the document's start, and
\* end in the last text node or at the document's end
SearchRanges(doc) ==
    LET first == TextNodes(doc)[1]
        last == TextNodes(doc)[Len(TextNodes(doc))]
        starts == {<<1, 0>>} \cup {<<first, o>> : o \in 0..Min(MaxStart, Len(doc[first].data))}
        ends == {<<1, Len(Children(doc, 1))>>}
                    \cup {<<last, Len(doc[last].data) - inset>> : inset \in 0..Min(MaxInset, Len(doc[last].data))}
    IN  {Range(start, end) : start \in starts, end \in ends}

InitSearch ==
    /\ document \in SearchDocuments
    /\ input \in Queries
    /\ searchRange \in SearchRanges(document)
    /\ pc = "search"
    /\ parsedValues = ParsedNull
    /\ result = NotFound
    /\ directives = <<>>
    /\ ranges = <<>>

\* findARangeFromANodeList over the text nodes of the block
FindARangeFromANodeList ==
    /\ pc = "search"
    /\ result' = findARangeFromANodeList(document, input, searchRange, TextNodes(document))
    /\ pc' = "listSearched"
    /\ UNCHANGED <<document, input, parsedValues, searchRange, directives, ranges>>

\* findStringInRange, which moves searchRange as it goes
FindStringInRange ==
    /\ pc = "search"
    /\ LET found == findStringInRange(document, input, searchRange)
       IN  /\ result' = [st |-> found.st, range |-> found.match, err |-> found.err]
           /\ searchRange' = found.range
    /\ pc' = "rangeSearched"
    /\ UNCHANGED <<document, input, parsedValues, directives, ranges>>

\* searchRange.setStart(...point) gave moved
StartSet(point, moved) ==
    /\ result' = [st |-> IF moved.st = "throw" THEN "throw" ELSE "startSet", range |-> result.range,
                  err |-> moved.err, point |-> point]
    /\ searchRange' = IF moved.st = "throw" THEN searchRange ELSE moved.range

StartSetAt(doc, sRange, point) == StartSet(point, SetStartAt(doc, sRange, point))

\* steps 2.2.3 and 2.3.3 of findRangeFromTextDirective, after a match was found:
\* searchRange's start is set to the first boundary point after the match's start
SetStartAfterMatch ==
    /\ pc = "rangeSearched"
    /\ result.st = "found"
    /\ StartSetAt(document, searchRange, firstBoundaryPointAfter(document, getStart(result.range)))
    /\ pc' = "startSet"
    /\ UNCHANGED <<document, input, parsedValues, directives, ranges>>

NextSearch == FindARangeFromANodeList \/ FindStringInRange \/ SetStartAfterMatch

SpecSearch == InitSearch /\ [][NextSearch]_vars

---------------------------------------------------------------------------
(* Claims about the searches, checked under SpecSearch *)

\* the search buffer of the block, and the index in it of a boundary point
Buffer == SearchBuffer(document, TextNodes(document))

RECURSIVE LengthBefore(_, _, _)
LengthBefore(doc, nodes, node) ==
    IF nodes = <<>> \/ Head(nodes) = node THEN 0
    ELSE Len(doc[Head(nodes)].data) + LengthBefore(doc, Tail(nodes), node)
BufferIndex(point) == LengthBefore(document, TextNodes(document), point[1]) + point[2]

\* two strings of one length that differ in the case of their letters at most
RECURSIVE EqualIgnoringCase(_, _)
EqualIgnoringCase(a, b) ==
    IF a = "" \/ b = "" THEN a = b
    ELSE /\ LowerChar(CharAt(a, 0)) = LowerChar(CharAt(b, 0))
         /\ EqualIgnoringCase(Substring1(a, 1), Substring1(b, 1))

\* the query occurs in the buffer at index i, case set aside
OccursAt(i) ==
    i + Len(input) <= Len(Buffer) /\ EqualIgnoringCase(Substring2(Buffer, i, i + Len(input)), input)

\* where the search starts and how much of the buffer's end lies outside the range
SearchStartOf(range) == IF range.sc = TextNodes(document)[1] THEN range.so ELSE 0
EndInsetOf(range) ==
    IF range.ec = TextNodes(document)[Len(TextNodes(document))]
    THEN Len(document[range.ec].data) - range.eo ELSE 0

\* the occurrences the search may settle on: word bounded, not before the start
Candidates ==
    {i \in SearchStartOf(searchRange)..Len(Buffer) : OccursAt(i) /\ isWordBounded(Buffer, i, Len(input))}
FirstCandidate == CHOOSE i \in Candidates : \A j \in Candidates : i <= j

\* C9: findARangeFromANodeList matches the query whatever the case of its
\* letters: it returns the first word-bounded occurrence, case set aside, that
\* lies in the range, as a range of exactly as many code units as the query
\* has, and null when there is none; "Hello" in "say hello now" is the 5 units at 4.
C9_CaseInsensitiveSearch ==
    pc = "listSearched" =>
        /\ result.st # "throw"
        /\ IF Candidates = {} \/ FirstCandidate + Len(input) > Len(Buffer) - EndInsetOf(searchRange)
           THEN result.st = "null"
           ELSE /\ result.st = "found"
                /\ BufferIndex(getStart(result.range)) = FirstCandidate
                /\ BufferIndex(getEnd(result.range)) = FirstCandidate + Len(input)
        /\ (/\ Buffer = "say hello now" /\ input = "Hello"
            /\ SearchStartOf(searchRange) <= 4 /\ EndInsetOf(searchRange) = 0)
              => (/\ result.st = "found"
                  /\ BufferIndex(getStart(result.range)) = 4
                  /\ BufferIndex(getEnd(result.range)) = 9)

\* "Hello" is found in "say hello now", the match running over both text nodes
C9_Witness ==
    /\ pc = "listSearched"
    /\ Buffer = "say hello now"
    /\ input = "Hello"
    /\ result.st = "found"
    /\ BufferIndex(getStart(result.range)) = 4
    /\ result.range.sc # result.range.ec

\* C10: the range findStringInRange returns starts and ends at word
\* boundaries of the search buffer; "cat" is not found in "concatenate", and in
\* "the cat sat" it is found as the word at 4.
C10_MatchIsWordBounded ==
    pc = "rangeSearched" =>
        /\ result.st = "found" =>
              /\ BoundaryMatchAt(Buffer, BufferIndex(getStart(result.range)))
              /\ BoundaryMatchAt(Buffer, BufferIndex(getEnd(result.range)))
        /\ (Buffer = "concatenate" /\ input = "cat") => result.st = "null"
        /\ (/\ Buffer = "the cat sat" /\ input = "cat"
            /\ SearchStartOf(searchRange) <= 4 /\ EndInsetOf(searchRange) = 0) =>
              /\ result.st = "found"
              /\ BufferIndex(getStart(result.range)) = 4
              /\ BufferIndex(getEnd(result.range)) = 7

\* "cat" is found in "catcat Cat", as its last word and not inside the first
C10_Witness ==
    /\ pc = "rangeSearched"
    /\ Buffer = "catcat Cat"
    /\ input = "cat"
    /\ result.st = "found"
    /\ BufferIndex(getStart(result.range)) = 7

\* the text node that holds the code unit at index i of the buffer
UnitHolder(i) ==
    CHOOSE n \in {TextNodes(document)[k] : k \in 1..Len(TextNodes(document))} :
        /\ LengthBefore(document, TextNodes(document), n) <= i
        /\ i < LengthBefore(document, TextNodes(document), n) + Len(document[n].data)

\* the boundary point before (after = 0) or after (after = 1) the unit at index i
PointAtUnit(i, after) ==
    <<UnitHolder(i), i - LengthBefore(document, TextNodes(document), UnitHolder(i)) + after>>

\* C11: a query that occurs in the concatenation of the block's text nodes is
\* found by findStringInRange also when it runs over a node boundary: the
\* range starts in the node holding the match's first code unit, at that
\* unit's offset, and ends in the node holding its last code unit, just after
\* it; "Hello" in "Hel" + "lo world" is found from (first node, 0) to (second node, 2).
C11_MatchAcrossTextNodes ==
    pc = "rangeSearched" =>
        /\ result.st # "throw"
        /\ IF Candidates = {} \/ FirstCandidate + Len(input) > Len(Buffer) - EndInsetOf(searchRange)
           THEN result.st = "null"
           ELSE /\ result.st = "found"
                /\ getStart(result.range) = PointAtUnit(FirstCandidate, 0)
                /\ getEnd(result.range) = PointAtUnit(FirstCandidate + Len(input) - 1, 1)
        /\ (/\ Buffer = "Hello world" /\ input = "Hello"
            /\ document[TextNodes(document)[1]].data = "Hel"
            /\ SearchStartOf(searchRange) = 0 /\ EndInsetOf(searchRange) = 0)
              => (/\ result.st = "found"
                  /\ getStart(result.range) = <<TextNodes(document)[1], 0>>
                  /\ getEnd(result.range) = <<TextNodes(document)[2], 2>>)

\* "Hello" is found in "Hel" + "lo world", from the first node into the second
C11_Witness ==
    /\ pc = "rangeSearched"
    /\ input = "Hello"
    /\ document[TextNodes(document)[1]].data = "Hel"
    /\ document[TextNodes(document)[2]].data = "lo world"
    /\ result.st = "found"
    /\ result.range.sc = TextNodes(document)[1]
    /\ result.range.ec = TextNodes(document)[2]

\* C15: a range returned by findARangeFromANodeList or findStringInRange lies
\* inside the search range: it does not start before the range's start (as
\* the search left it, which is not before where it was given) and does not
\* end after the range's end, also when the range starts or ends inside a
\* text node.
C15_MatchInsideSearchRange ==
    (pc \in {"listSearched", "rangeSearched"} /\ result.st = "found") =>
        /\ Position(document, getStart(result.range), getStart(searchRange)) # "before"
        /\ Position(document, getEnd(result.range), getEnd(searchRange)) # "after"

\* "cat" is found in "catcat Cat" by a search that starts inside the first
\* text node and ends one unit before the end of the last one
C15_Witness ==
    /\ pc = "rangeSearched"
    /\ Buffer = "catcat Cat t"
    /\ input = "cat"
    /\ result.st = "found"
    /\ searchRange.sc = TextNodes(document)[1]
    /\ searchRange.so > 0
    /\ EndInsetOf(searchRange) = 1
    /\ BufferIndex(getStart(result.range)) = 7

---------------------------------------------------------------------------
(* the tree helpers, applied to the nodes of a document *)

TreeItemPool ==
    {Item("p", "a"), Item("span", "a"), Item("text", "b"), Item("none", "b"),
     Item("div", ""), Item("br", ""), Item("shadow", "b"), Item("host", "b"),
     Item("nonehost", "b"), Item("under", "b"), Item("hidden", "b"), Item("notrendered", "b"),
     Item("mixed", "b"), Item("blockin", "b"), Item("around", "b"), Item("inlinehost", "b")}

TreeDocuments ==
    {EmptyDocument} \cup
    {Build(dt, items) : dt \in BOOLEAN, items \in UNION {[1..n -> TreeItemPool] : n \in 0..MaxItems}}

\* a helper was applied to node from and returned node or value
Applied(st, from, node, value) == [st |-> st, from |-> from, node |-> node, value |-> value]

\* the traversal is about to start at the root
InitTree ==
    /\ document \in TreeDocuments
    /\ pc = "tree"
    /\ result = Applied("root", NullNode, 1, FALSE)
    /\ input = ""
    /\ parsedValues = ParsedNull
    /\ searchRange = InitialSearchRange(document)
    /\ directives = <<>>
    /\ ranges = <<>>

Stepped(from, next) ==
    /\ result' = Applied("next", from, next, FALSE)
    /\ pc' = IF next = NullNode THEN "walked" ELSE "walking"

\* one call of nextNodeInShadowIncludingTreeOrder, on the node the last call returned
NextNodeInShadowIncludingTreeOrder ==
    /\ pc \in {"tree", "walking"}
    /\ Stepped(result.node, nextNodeInShadowIncludingTreeOrder(document, result.node))
    /\ UNCHANGED <<document, input, parsedValues, searchRange, directives, ranges>>

\* partOfNonSearchableSubtree, called on any node of the document
PartOfNonSearchableSubtree ==
    /\ pc = "tree"
    /\ \E node \in Nodes(document) :
          result' = Applied("classified", node, node, partOfNonSearchableSubtree(document, node))
    /\ pc' = "classified"
    /\ UNCHANGED <<document, input, parsedValues, searchRange, directives, ranges>>

\* the walk of step 1.4.3 ended: value is the text node list, node the node it stopped at
Collected(from, walk) ==
    /\ result' = Applied(IF walk.st = "throw" THEN walk.err ELSE "collected", from, walk.curNode, walk.list)
    /\ pc' = IF walk.st = "throw" THEN "threw" ELSE "collected"

\* a pass of findStringInRange's loop that reaches step 1.4, searchRange starting at (node, 0)
CollectFrom(doc, node, moved) ==
    /\ moved.st = "ok"
    /\ ~Collapsed(moved.range)
    /\ ~partOfNonSearchableSubtree(doc, node)
    /\ isVisibleTextNode(doc, node)
    /\ searchRange' = moved.range
    /\ Collected(node, collectTextNodes(doc, moved.range, nearestBlockAncestorOf(doc, node), node, <<>>))

\* steps 1.4.1-1.4.3 of findStringInRange, after searchRange.setStart(node, 0)
CollectTextNodes ==
    /\ pc = "tree"
    /\ \E node \in Nodes(document) : CollectFrom(document, node, SetStart(document, searchRange, node, 0))
    /\ UNCHANGED <<document, input, parsedValues, directives, ranges>>

NextTree == NextNodeInShadowIncludingTreeOrder \/ PartOfNonSearchableSubtree \/ CollectTextNodes

SpecTree == InitTree /\ [][NextTree]_vars

\* the node after node in shadow-including tree order, the shadow roots
\* themselves left out; null after the last one
NextInOrder(doc, node) == FirstOf({m \in Nodes(doc) : m > node /\ doc[m].kind # "shadowroot"})

\* C17: each call of nextNodeInShadowIncludingTreeOrder returns the next node
\* in shadow-including preorder: the nodes of a host's shadow tree, then the
\* host's own children and the nodes after the host; it returns null only
\* after the last node of the whole tree.
C17_TraversalReachesLightTree ==
    pc \in {"walking", "walked"} => result.node = NextInOrder(document, result.from)

\* a shadow-including inclusive ancestor of node is search-invisible
UnderSearchInvisible(doc, node) ==
    \E a \in Nodes(doc) :
        /\ a = node \/ isShadowIncludingDescendant(doc, node, a)
        /\ isSearchInvisible(doc, a)

\* C18: partOfNonSearchableSubtree(node) is true exactly when node or one of
\* its shadow-including ancestors is search-invisible, the nodes in the
\* shadow tree of a search-invisible host included.
C18_NonSearchableSubtree ==
    pc = "classified" => result.value = UnderSearchInvisible(document, result.from)

\* the data of the text nodes from..to, in tree order
RECURSIVE TextOfAll(_, _, _)
TextOfAll(doc, from, to) ==
    IF from > to THEN ""
    ELSE (IF doc[from].kind = "text" THEN doc[from].data ELSE "") \o TextOfAll(doc, from + 1, to)

\* the text nodes of a collected list
Listed(list) == {list[i] : i \in 1..Len(list)}

\* C19: every text node collected for a search buffer by findStringInRange is
\* a visible text node, and neither it nor a shadow-including ancestor of it
\* is search-invisible: no text that is hidden, not rendered or undisplayed
\* can hold the start or the end of a match.
C19_ExcludedContentNotCollected ==
    pc = "collected" =>
        \A node \in Listed(result.value) :
            /\ isVisibleTextNode(document, node)
            /\ ~UnderSearchInvisible(document, node)

\* a list of two text nodes was collected although an undisplayed text lies between them
C19_Witness ==
    /\ pc = "collected"
    /\ Len(result.value) = 2
    /\ \E node \in Nodes(document) :
          /\ result.value[1] < node /\ node < result.value[2]
          /\ document[node].kind = "text"
          /\ UnderSearchInvisible(document, node)

\* the nodes between the first and the last node of a collected list
Between(doc, list) == {k \in Nodes(doc) : list # <<>> /\ list[1] < k /\ k < list[Len(list)]}

\* every collected node is a descendant of the start node's nearest block ancestor
InsideBlockAncestor(doc, from, list) ==
    \A node \in Listed(list) : isShadowIncludingDescendant(doc, node, nearestBlockAncestorOf(doc, from))

\* C20: the text nodes findStringInRange collects into one search buffer are
\* descendants of the start node's nearest block ancestor, and no element
\* with block-level display lies between two of them in tree order.
C20_NoBlockBetweenCollected ==
    pc = "collected" =>
        /\ InsideBlockAncestor(document, result.from, result.value)
        /\ \A k \in Between(document, result.value) : ~hasBlockLevelDisplay(document, k)

\* C20, amended: the collected text nodes are descendants of the start node's
\* nearest block ancestor, and every element with block-level display that
\* lies between two of them is inside a search-invisible element.
C20_NoDisplayedBlockBetweenCollected ==
    pc = "collected" =>
        /\ InsideBlockAncestor(document, result.from, result.value)
        /\ \A k \in Between(document, result.value) :
              hasBlockLevelDisplay(document, k) => UnderSearchInvisible(document, k)

\* two text nodes were collected and the walk stopped at a block-level
\* element inside the block ancestor, with text after it
C20_Witness ==
    /\ pc = "collected"
    /\ Len(result.value) = 2
    /\ result.node # NullNode
    /\ hasBlockLevelDisplay(document, result.node)
    /\ isDescendant(document, result.node, nearestBlockAncestorOf(document, result.from))
    /\ \E node \in Nodes(document) : node > result.node /\ isVisibleTextNode(document, node)

---------------------------------------------------------------------------
(* getBoundaryPointAtIndex, applied to the text nodes of a block *)

MaxBeyond == 2
Pieces == {"", "a", "bc", "def"}

\* a block of three text nodes, any of them empty
PointDocuments ==
    {Build(FALSE, <<Item("span", a), Item("text", b), Item("span", c)>>) : a \in Pieces, b \in Pieces, c \in Pieces}

InitPoint ==
    /\ document \in PointDocuments
    /\ pc = "point"
    /\ result = [st |-> "none", index |-> 0, isEnd |-> FALSE, point |-> NullPoint]
    /\ input = ""
    /\ parsedValues = ParsedNull
    /\ searchRange = NullRange
    /\ directives = <<>>
    /\ ranges = <<>>

\* one call of getBoundaryPointAtIndex on the text nodes of the document
GetBoundaryPointAtIndex ==
    /\ pc = "point"
    /\ \E index \in 0..(Len(SearchBuffer(document, TextNodes(document))) + MaxBeyond), isEnd \in BOOLEAN :
          result' = [st |-> "point", index |-> index, isEnd |-> isEnd,
                     point |-> getBoundaryPointAtIndex(document, index, TextNodes(document), isEnd)]
    /\ pc' = "pointed"
    /\ UNCHANGED <<document, input, parsedValues, searchRange, directives, ranges>>

NextPoint == GetBoundaryPointAtIndex

SpecPoint == InitPoint /\ [][NextPoint]_vars

\* the length of the text nodes of the document before node, and up to its end
UnitsBefore(doc, node) == Len(TextOfAll(doc, 1, node - 1))
UnitsUpTo(doc, node) == Len(TextOfAll(doc, 1, node))

\* the first text node whose units end after index (orAt: at index or after it)
FirstReaching(doc, index, orAt) ==
    FirstOf({n \in Nodes(doc) : /\ doc[n].kind = "text"
                                 /\ \/ UnitsUpTo(doc, n) > index
                                    \/ orAt /\ UnitsUpTo(doc, n) = index})

\* C21: for text nodes of total length L, getBoundaryPointAtIndex with isEnd
\* false and index < L returns the first node whose end exceeds index, with
\* an offset below its length; with isEnd true and index <= L it returns the
\* first node whose end reaches index, with an offset up to its length; the
\* units before the node plus the offset make index; null is returned only
\* for an index beyond these bounds.
C21_BoundaryPointAtIndex ==
    pc = "pointed" =>
        IF result.index < UnitsUpTo(document, Len(document)) + (IF result.isEnd THEN 1 ELSE 0)
        THEN /\ result.point # NullPoint
             /\ result.point[1] = FirstReaching(document, result.index, result.isEnd)
             /\ 0 <= result.point[2]
             /\ result.point[2] < Len(document[result.point[1]].data) + (IF result.isEnd THEN 1 ELSE 0)
             /\ UnitsBefore(document, result.point[1]) + result.point[2] = result.index
        ELSE result.point = NullPoint

\* an end index on the boundary between the first and the second text node
\* gave the end of the first node
C21_Witness ==
    /\ pc = "pointed"
    /\ result.isEnd
    /\ result.index = 2
    /\ document[TextNodes(document)[1]].data = "bc"
    /\ document[TextNodes(document)[2]].data = ""
    /\ result.point = <<TextNodes(document)[1], 2>>

---------------------------------------------------------------------------
(* isWordBounded, applied to the substrings of a text *)

Texts == {"a", "a b", ". .", "ab.c", " a ", "a  b", "..", "cat sat", "say hello", "_a-b", "a.b c", "A1 b2"}

InitWord ==
    /\ input \in Texts
    /\ pc = "word"
    /\ result = [st |-> "none", start |-> 0, count |-> 0, value |-> FALSE]
    /\ document = EmptyDocument
    /\ parsedValues = ParsedNull
    /\ searchRange = NullRange
    /\ directives = <<>>
    /\ ranges = <<>>

\* one call of isWordBounded on a non-empty substring of the text
IsWordBounded ==
    /\ pc = "word"
    /\ \E start \in 0..(Len(input) - 1) :
          \E count \in 1..(Len(input) - start) :
              result' = [st |-> "bounded", start |-> start, count |-> count,
                         value |-> isWordBounded(input, start, count)]
    /\ pc' = "bounded"
    /\ UNCHANGED <<document, input, parsedValues, searchRange, directives, ranges>>

NextWord == IsWordBounded

SpecWord == InitWord /\ [][NextWord]_vars

\* position i is a word boundary of text: its start, its end, a change
\* between word and non-word characters, or the place of a whitespace character
IsBoundary(text, i) ==
    \/ i = 0
    \/ i = Len(text)
    \/ IsWordChar(CharAt(text, i - 1)) # IsWordChar(CharAt(text, i))
    \/ IsWhiteSpaceChar(CharAt(text, i))

\* C22: for count >= 1 and start + count <= length(text), isWordBounded is
\* true exactly when position start and position start + count are both
\* word boundaries of text, the start and the end of text being boundaries;
\* so the whole of a non-empty text is word bounded.
C22_WordBoundedIffBoundaries ==
    pc = "bounded" =>
        /\ result.value = (IsBoundary(input, result.start) /\ IsBoundary(input, result.start + result.count))
        /\ (result.start = 0 /\ result.count = Len(input)) => result.value

\* "sat" in "cat sat" is word bounded: it starts after the space and ends the text
C22_Witness ==
    /\ pc = "bounded"
    /\ input = "cat sat"
    /\ result.start = 4
    /\ result.count = 3
    /\ result.value

---------------------------------------------------------------------------
(* advanceRangeStartToNextNonWhitespacePosition, applied to a range that   *)
(* starts where a match ended and ends at the document's end               *)

AdvanceItemPool ==
    {Item("span", "a "), Item("span", " b"), Item("text", "b"), Item("p", "a  b"),
     Item("p", "a&nbsp;b"), Item("p", "a&nbsp &nbspb"), Item("span", "a&nb"), Item("text", "sp;b"),
     Item("none", " "), Item("comment", " "), Item("br", ""), Item("p", "a")}

AdvanceDocuments ==
    {Build(FALSE, items) : items \in UNION {[1..n -> AdvanceItemPool] : n \in 1..MaxItems}}

\* the ranges from the end of a possible match, in a visible text node, to the document's end
AdvanceRanges(doc) ==
    {Range(<<node, offset>>, getEnd(InitialSearchRange(doc))) :
        node \in {n \in Nodes(doc) : isVisibleTextNode(doc, n) /\ ~partOfNonSearchableSubtree(doc, n)},
        offset \in 1..3}

InitAdvance ==
    /\ document \in AdvanceDocuments
    /\ searchRange \in {range \in AdvanceRanges(document) : range.so <= nodeLength(document, range.sc)}
    /\ pc = "advance"
    /\ result = Ok(searchRange)
    /\ input = ""
    /\ parsedValues = ParsedNull
    /\ directives = <<>>
    /\ ranges = <<>>

\* one call of advanceRangeStartToNextNonWhitespacePosition; searchRange keeps
\* the range as it was given, result the range as the call left it
AdvanceRangeStartToNextNonWhitespacePosition ==
    /\ pc = "advance"
    /\ result' = advanceRangeStartToNextNonWhitespacePosition(document, searchRange)
    /\ pc' = "advanced"
    /\ UNCHANGED <<document, input, parsedValues, searchRange, directives, ranges>>

NextAdvance == AdvanceRangeStartToNextNonWhitespacePosition

SpecAdvance == InitAdvance /\ [][NextAdvance]_vars

\* how many units of whitespace start at offset of data: 6 for "&nbsp;",
\* 5 for "&nbsp", 1 for a character with the White_Space property, else 0
WhitespaceAt(data, offset) ==
    IF StartsWithAt(data, "&nbsp;", offset) THEN 6
    ELSE IF StartsWithAt(data, "&nbsp", offset) THEN 5
    ELSE IF offset < Len(data) /\ hasWhiteSpaceProperty(CharAt(data, offset)) THEN 1
    ELSE 0

\* text is made of whitespace, "&nbsp;" and "&nbsp" only
RECURSIVE AllWhitespace(_)
AllWhitespace(text) ==
    \/ text = ""
    \/ /\ WhitespaceAt(text, 0) > 0
       /\ AllWhitespace(Substring1(text, WhitespaceAt(text, 0)))

\* the data of the text nodes the walk from point1 to point2 passes, other
\* than comments: the rest of point1's node, the nodes between, the start of point2's
PassedOver(doc, point1, point2) ==
    IF point1[1] = point2[1] THEN Substring2(doc[point1[1]].data, point1[2], point2[2])
    ELSE Substring1(doc[point1[1]].data, point1[2])
             \o TextOfNodes(doc, point1[1] + 1, point2[1] - 1)
             \o Substring2(doc[point2[1]].data, 0, point2[2])

\* C24: advanceRangeStartToNextNonWhitespacePosition, started in a visible
\* text node, ends without an exception; it leaves the range's end where it
\* was; the start has moved forward over whitespace, "&nbsp;" and "&nbsp"
\* only, into the next node when a node's end was reached, and has stopped
\* at a position of a visible text node where none of these begins.
C24_AdvancePastWhitespace ==
    pc = "advanced" =>
        /\ result.st = "ok"
        /\ samePoint(getEnd(result.range), getEnd(searchRange))
        /\ Position(document, getStart(result.range), getStart(searchRange)) # "before"
        /\ AllWhitespace(PassedOver(document, getStart(searchRange), getStart(result.range)))
        /\ isVisibleTextNode(document, result.range.sc)
        /\ WhitespaceAt(document[result.range.sc].data, result.range.so) = 0

---------------------------------------------------------------------------
(* initializeDocumentFragmentDirective, applied to a document's URL *)

fragmentDirectiveDelimiter == ":~:"

\* steps 11-12: the first position where the delimiter begins, or the length
RECURSIVE fragmentDirectivePositionFrom(_, _)
fragmentDirectivePositionFrom(rawFragment, position) ==
    IF /\ ~StartsWith(Substring1(rawFragment, position), fragmentDirectiveDelimiter)
       /\ ~(position >= Len(rawFragment))
    THEN fragmentDirectivePositionFrom(rawFragment, position + 1)
    ELSE position

Initialized(documentUrl, documentFragmentDirective) ==
    [documentUrl |-> documentUrl, documentFragmentDirective |-> documentFragmentDirective]

\* steps 13-14.  In step 13.4 the conditional operator binds weaker than +:
\* its condition is the string url.split('#')[0] + true, which is truthy,
\* so url becomes '#' + fragment
fragmentDirectiveSplit(url, rawFragment, fragmentDirectivePosition) ==
    IF ~(fragmentDirectivePosition >= Len(rawFragment))
    THEN Initialized("#" \o Substring2(rawFragment, 0, 0 + fragmentDirectivePosition),
                     Some(Substring1(rawFragment,
                                     fragmentDirectivePosition + Len(fragmentDirectiveDelimiter))))
    ELSE Initialized(url, Null)

\* step 10 and the test for a null fragment, with the pieces of url.split('#')
withRawFragment(url, pieces) ==
    IF Len(pieces) < 2 THEN Initialized(url, Null)
    ELSE fragmentDirectiveSplit(url, pieces[2], fragmentDirectivePositionFrom(pieces[2], 0))

initializeDocumentFragmentDirective(documentURL) ==
    withRawFragment(documentURL, Split(documentURL, "#"))

MaxPieces == 3
FragmentPieces == {"a", ":~:", "~", ":"}
RECURSIVE Concatenated(_)
Concatenated(pieces) == IF pieces = <<>> THEN "" ELSE Head(pieces) \o Concatenated(Tail(pieces))
Fragments == {Concatenated(pieces) : pieces \in UNION {[1..n -> FragmentPieces] : n \in 0..MaxPieces}}
Urls == {"u", "v/p"} \cup {base \o "#" \o fragment : base \in {"u", "v/p"}, fragment \in Fragments}

InitInitialize ==
    /\ input \in Urls
    /\ pc = "initialize"
    /\ result = Initialized("", Null)
    /\ document = EmptyDocument
    /\ parsedValues = ParsedNull
    /\ searchRange = NullRange
    /\ directives = <<>>
    /\ ranges = <<>>

\* one call of initializeDocumentFragmentDirective, input being document.URL
InitializeDocumentFragmentDirective ==
    /\ pc = "initialize"
    /\ result' = initializeDocumentFragmentDirective(input)
    /\ pc' = "initialized"
    /\ UNCHANGED <<document, input, parsedValues, searchRange, directives, ranges>>

NextInitialize == InitializeDocumentFragmentDirective

SpecInitialize == InitInitialize /\ [][NextInitialize]_vars

\* where the URL's '#' is (-1 without a fragment), and where the delimiter
\* first occurs in the fragment (-1 when it does not)
HashAt(url) == IndexOfFrom(url, "#", 0)
DelimiterAt(url) ==
    IF HashAt(url) = -1 THEN -1
    ELSE IndexOfFrom(Substring1(url, HashAt(url) + 1), fragmentDirectiveDelimiter, 0)

\* the fragment directive of the URL: the text after the first delimiter of the fragment
DirectiveOf(url) ==
    IF DelimiterAt(url) = -1 THEN Null
    ELSE Some(Substring1(url, HashAt(url) + 1 + DelimiterAt(url) + Len(fragmentDirectiveDelimiter)))

\* the URL with the delimiter and what follows it taken off its fragment
WithoutDirective(url) ==
    IF DelimiterAt(url) = -1 THEN url ELSE Substring2(url, 0, HashAt(url) + 1 + DelimiterAt(url))

\* C28: initializeDocumentFragmentDirective returns as documentFragmentDirective
\* the text after the first ":~:" of the URL's fragment and as documentUrl
\* the URL with its fragment cut before that delimiter, the part before '#'
\* kept; without a fragment or a delimiter it returns null and the URL.
C28_FragmentSplitAtDelimiter ==
    pc = "initialized" =>
        /\ result.documentFragmentDirective = DirectiveOf(input)
        /\ result.documentUrl = WithoutDirective(input)

---------------------------------------------------------------------------
(* languageOf and the pragma-set default language *)

\* a node with the attributes that languageOf and the meta selector read;
\* an attribute that is not set is Null
Attributed(kind, parent, localName, xmlLang, lang, httpEquiv, content) ==
    [kind |-> kind, parent |-> parent, localName |-> localName, xmlLang |-> xmlLang,
     lang |-> lang, httpEquiv |-> httpEquiv, content |-> content]

AsciiWhitespace == {"\t", "\n", "\f", "\r", " "}

\* step 5: skip ASCII whitespace within input given position
RECURSIVE skipAsciiWhitespace(_, _)
skipAsciiWhitespace(content, position) ==
    IF position < Len(content) /\ CharAt(content, position) \in AsciiWhitespace
    THEN skipAsciiWhitespace(content, position + 1)
    ELSE position

Pragma(st, value, err) == [st |-> st, value |-> value, err |-> err]

\* steps 6-7: past the end of input, input[position] is undefined, which
\* AsciiWhitespace does not include: the loop does not end
RECURSIVE collectCandidate(_, _, _)
collectCandidate(content, position, candidate) ==
    IF position >= Len(content) THEN Pragma("hang", Null, "")
    ELSE IF CharAt(content, position) \in AsciiWhitespace THEN Pragma("ok", Some(candidate), "")
    ELSE collectCandidate(content, position + 1, candidate \o CharAt(content, position))

\* steps 8-9
setFromCandidate(collected, pragmaSetDefaultLanguage) ==
    IF collected.st # "ok" THEN collected
    ELSE IF Val(collected.value) = "" THEN Pragma("ok", pragmaSetDefaultLanguage, "")
    ELSE Pragma("ok", collected.value, "")

\* steps 3, 2 and 4-9 on the value of getAttribute('content'), null when
\* the attribute is not set: null has no method includes
withContent(content, pragmaSetDefaultLanguage) ==
    IF IsNull(content) THEN Pragma("throw", Null, "TypeError")
    ELSE IF \E at \in 0..(Len(Val(content)) - 1) : CharAt(Val(content), at) = ","
         THEN Pragma("ok", pragmaSetDefaultLanguage, "")
    ELSE setFromCandidate(collectCandidate(Val(content), skipAsciiWhitespace(Val(content), 0), ""),
                          pragmaSetDefaultLanguage)

\* the callback of forEach on one meta element; step 1 returns when the
\* element has a content attribute
perMetaElement(element, pragmaSetDefaultLanguage) ==
    IF ~IsNull(element.content) THEN Pragma("ok", pragmaSetDefaultLanguage, "")
    ELSE withContent(element.content, pragmaSetDefaultLanguage)

RECURSIVE forEachMetaElement(_, _, _)
forEachMetaElement(doc, metaElements, pragma) ==
    IF metaElements = <<>> \/ pragma.st # "ok" THEN pragma
    ELSE forEachMetaElement(doc, Tail(metaElements),
                            perMetaElement(doc[Head(metaElements)], pragma.value))

\* document.querySelectorAll('meta[http-equiv="content-language"]'), in tree order
RECURSIVE metaElementsFrom(_, _)
metaElementsFrom(doc, node) ==
    IF node > Len(doc) THEN <<>>
    ELSE (IF /\ isElement(doc, node)
             /\ doc[node].localName = "meta"
             /\ doc[node].httpEquiv = Some("content-language")
          THEN <<node>> ELSE <<>>) \o metaElementsFrom(doc, node + 1)

getPragmaSetDefaultLanguage(doc) ==
    forEachMetaElement(doc, metaElementsFrom(doc, 1), Pragma("ok", Null, ""))

\* the value of the function for an undefined or defined pragma-set default language
languageOrFallback(pragma) ==
    IF pragma.st # "ok" THEN pragma
    ELSE IF ~IsNull(pragma.value) THEN pragma
    ELSE Pragma("ok", Some(""), "")

RECURSIVE languageOfFrom(_, _)
languageOfFrom(doc, curNode) ==
    IF curNode = NullNode THEN languageOrFallback(getPragmaSetDefaultLanguage(doc))
    ELSE IF isElement(doc, curNode) /\ ~IsNull(doc[curNode].xmlLang)
         THEN Pragma("ok", doc[curNode].xmlLang, "")
    ELSE IF isElement(doc, curNode) /\ ~IsNull(doc[curNode].lang)
         THEN Pragma("ok", doc[curNode].lang, "")
    ELSE languageOfFrom(doc, doc[curNode].parent)

languageOf(doc, node) == languageOfFrom(doc, node)

MaxMetas == 2
LangAttributes == {<<Null, Null>>, <<Null, Some("en")>>, <<Null, Some("")>>,
                   <<Some("nl"), Null>>, <<Some("nl"), Some("en")>>}
MetaPool == {<<Some("content-language"), Some("fr")>>, <<Some("content-language"), Some("a,b")>>,
             <<Some("content-language"), Some(" de ")>>, <<Some("content-language"), Some(" ")>>,
             <<Some("content-language"), Null>>, <<Some("refresh"), Some("x")>>,
             <<Null, Some("es")>>}

\* <html> holding the meta elements and a <p> with a text node
LanguageDocument(htmlAttributes, metas, pAttributes) ==
    <<Attributed("document", NullNode, "", Null, Null, Null, Null),
      Attributed("element", 1, "html", htmlAttributes[1], htmlAttributes[2], Null, Null)>>
    \o [m \in 1..Len(metas) |-> Attributed("element", 2, "meta", Null, Null, metas[m][1], metas[m][2])]
    \o <<Attributed("element", 2, "p", pAttributes[1], pAttributes[2], Null, Null),
         Attributed("text", Len(metas) + 3, "", Null, Null, Null, Null)>>

LanguageDocuments ==
    {LanguageDocument(htmlAttributes, metas, pAttributes) :
        htmlAttributes \in LangAttributes,
        metas \in UNION {[1..n -> MetaPool] : n \in 0..MaxMetas},
        pAttributes \in LangAttributes}

InitLanguage ==
    /\ document \in LanguageDocuments
    /\ input \in 1..Len(document)
    /\ pc = "language"
    /\ result = Pragma("ok", Null, "")
    /\ parsedValues = ParsedNull
    /\ searchRange = NullRange
    /\ directives = <<>>
    /\ ranges = <<>>

\* one call of languageOf, input being the node
LanguageOf ==
    /\ pc = "language"
    /\ result' = languageOf(document, input)
    /\ pc' = IF result'.st = "ok" THEN "languageFound" ELSE "threw"
    /\ UNCHANGED <<document, input, parsedValues, searchRange, directives, ranges>>

NextLanguage == LanguageOf

SpecLanguage == InitLanguage /\ [][NextLanguage]_vars

\* the nearest inclusive ancestor element of node that has a lang attribute
RECURSIVE InclusiveAncestors(_, _)
InclusiveAncestors(doc, node) ==
    IF node = NullNode THEN {} ELSE {node} \cup InclusiveAncestors(doc, doc[node].parent)
HasLang(doc, node) ==
    isElement(doc, node) /\ (~IsNull(doc[node].xmlLang) \/ ~IsNull(doc[node].lang))
NearestWithLang(doc, node) ==
    LET with == {a \in InclusiveAncestors(doc, node) : HasLang(doc, a)}
    IN  IF with = {} THEN NullNode ELSE CHOOSE a \in with : \A b \in with : b <= a
LangOf(element) == IF ~IsNull(element.xmlLang) THEN Val(element.xmlLang) ELSE Val(element.lang)

\* the first run of characters of content that are not whitespace
CandidateOf(content) ==
    LET inked == {at \in 0..(Len(content) - 1) : CharAt(content, at) \notin AsciiWhitespace}
        first == CHOOSE at \in inked : \A other \in inked : at <= other
        stops == {at \in first..Len(content) :
                     at = Len(content) \/ CharAt(content, at) \in AsciiWhitespace}
    IN  IF inked = {} THEN ""
        ELSE Substring2(content, first, CHOOSE at \in stops : \A other \in stops : at <= other)

\* a content-language pragma whose content sets the default language
Usable(doc, node) ==
    /\ isElement(doc, node) /\ doc[node].localName = "meta"
    /\ doc[node].httpEquiv = Some("content-language")
    /\ ~IsNull(doc[node].content)
    /\ \A at \in 0..(Len(Val(doc[node].content)) - 1) : CharAt(Val(doc[node].content), at) # ","
    /\ CandidateOf(Val(doc[node].content)) # ""
PragmaSetDefaultLanguage(doc) ==
    LET usable == {node \in 1..Len(doc) : Usable(doc, node)}
    IN  IF usable = {} THEN Null
        ELSE Some(CandidateOf(Val(doc[CHOOSE a \in usable : \A b \in usable : b <= a].content)))

\* C29: languageOf(node) returns the lang of the nearest inclusive ancestor
\* element that has one, the one in the XML namespace first; without such
\* an ancestor the pragma-set default language of a usable content-language
\* pragma; and otherwise the empty string.
C29_LanguageOfNode ==
    pc # "language" =>
        /\ pc = "languageFound"
        /\ Val(result.value) =
              IF NearestWithLang(document, input) # NullNode
              THEN LangOf(document[NearestWithLang(document, input)])
              ELSE IF ~IsNull(PragmaSetDefaultLanguage(document))
                   THEN Val(PragmaSetDefaultLanguage(document))
              ELSE ""

---------------------------------------------------------------------------
(* The polyfill: its handlers, and the window's selection *)

Listed3(st, list, err) == [st |-> st, ranges |-> list, err |-> err]

\* processFragmentDirective run to its end: step 4, directive by directive
RECURSIVE processDirectivesFrom(_, _, _)
rangeAppended(doc, rest, list, found) ==
    IF found.st = "throw" THEN Listed3("throw", <<>>, found.err)
    ELSE processDirectivesFrom(doc, rest, IF found.found THEN PushRange(list, found.range) ELSE list)
directiveParsed(doc, rest, list, parsed) ==
    IF parsed.kind = "throw" THEN Listed3("throw", <<>>, "URIError")
    ELSE IF parsed.kind = "null" THEN processDirectivesFrom(doc, rest, list)
    ELSE rangeAppended(doc, rest, list, findRangeFromTextDirective(parsed.value, doc))
processDirectivesFrom(doc, list, found) ==
    IF list = <<>> THEN Listed3("ok", found, "")
    ELSE IF ~isTextFragmentDirective(Head(list)) THEN processDirectivesFrom(doc, Tail(list), found)
    ELSE directiveParsed(doc, Tail(list), found, parseTextDirective(Head(list)))

processFragmentDirective(fragmentDirectiveInput, doc) ==
    IF ~isValidFragmentDirective(fragmentDirectiveInput) THEN Listed3("ok", <<>>, "")
    ELSE processDirectivesFrom(doc, Split(fragmentDirectiveInput, "&"), <<>>)

\* step 2.2.3: the nearest inclusive ancestor of node that is an element
RECURSIVE elementFrom(_, _)
elementFrom(doc, node) == IF isElement(doc, node) THEN node ELSE elementFrom(doc, doc[node].parent)

\* what indicatedPartOfTheDocument_beginning returns; a property that is
\* undefined or absent is Null
IndicatedPart(st, documentIndicatedPart, list, err) ==
    [st |-> st, documentIndicatedPart |-> documentIndicatedPart, ranges |-> list, err |-> err]

\* step 2.2, with the outcome of processFragmentDirective
partOfRanges(doc, processed) ==
    IF processed.st = "throw" THEN IndicatedPart("throw", Null, Null, processed.err)
    ELSE IF Len(processed.ranges) > 0
    THEN IndicatedPart("ok", Some(<<elementFrom(doc, processed.ranges[1].sc), processed.ranges[1]>>),
                       Some(processed.ranges), "")
    ELSE IndicatedPart("ok", Null, Null, "")

indicatedPartOfTheDocument_beginning(doc, documentFragmentDirective, documentAllowTextFragmentDirective) ==
    IF documentAllowTextFragmentDirective
    THEN partOfRanges(doc, processFragmentDirective(documentFragmentDirective, doc))
    ELSE IndicatedPart("ok", Null, Null, "")

\* Selection.addRange: a range whose root is not the document is not added,
\* and a window that keeps one range only adds none to a selection that has one
addRange(doc, window, selection, range) ==
    IF GetRootNode(doc, range.sc) # 1 THEN selection
    ELSE IF ~window.multipleRanges /\ Len(selection) # 0 THEN selection
    ELSE Append(selection, range)

RECURSIVE addRanges(_, _, _, _)
addRanges(doc, window, selection, list) ==
    IF list = <<>> THEN selection
    ELSE addRanges(doc, window, addRange(doc, window, selection, Head(list)), Tail(list))

\* selection.removeAllRanges(), then addRange for each range
highlightRanges(doc, window, list) == addRanges(doc, window, <<>>, list)

\* what a handler leaves: the selection, the part scrolled to, and whether it threw
Handled(st, selection, target, err) ==
    [st |-> st, selection |-> selection, target |-> target, err |-> err]

\* the body of applyFragmentDirective for a directive that is not null
partApplied(doc, window, selection, part) ==
    IF part.st = "throw" THEN Handled("throw", selection, Null, part.err)
    ELSE Handled("ok",
                 IF ~IsNull(part.ranges) THEN highlightRanges(doc, window, Val(part.ranges))
                 ELSE selection,
                 part.documentIndicatedPart, "")

applyFragmentDirective(doc, window, selection, documentFragmentDirective) ==
    IF ~IsNull(documentFragmentDirective)
    THEN partApplied(doc, window, selection,
                     indicatedPartOfTheDocument_beginning(doc, Val(documentFragmentDirective), TRUE))
    ELSE Handled("ok", selection, Null, "")

\* the URL without its fragment directive, and the fragment directive
processAndConsumeFragmentDirective(url) ==
    [url |-> WithoutDirective(url), documentFragmentDirective |-> DirectiveOf(url)]

run(doc, window, selection, documentURL) ==
    applyFragmentDirective(doc, window, selection,
                           processAndConsumeFragmentDirective(documentURL).documentFragmentDirective)

\* the fragment directive a link or applyFragDir names: the text after the first delimiter
afterDelimiter(fragId) ==
    Substring1(fragId, IndexOfFrom(fragId, fragmentDirectiveDelimiter, 0) + 3)

\* the click listener of a link element; fragId is undefined without a '#'
linkClicked(doc, window, selection, documentURL, href) ==
    IF /\ Split(href, "#")[1] = Split(documentURL, "#")[1]
       /\ Len(Split(href, "#")) >= 2
       /\ Split(href, "#")[2] # ""
       /\ IndexOfFrom(Split(href, "#")[2], fragmentDirectiveDelimiter, 0) # -1
    THEN applyFragmentDirective(doc, window, selection, Some(afterDelimiter(Split(href, "#")[2])))
    ELSE Handled("ok", selection, Null, "")

applyFragDir(doc, window, selection, fragmentDirective) ==
    IF IndexOfFrom(fragmentDirective, fragmentDirectiveDelimiter, 0) = -1
    THEN Handled("throw", selection, Null, "TypeError")
    ELSE applyFragmentDirective(doc, window, selection, Some(afterDelimiter(fragmentDirective)))

MaxRuns == 2
RunDirectives == {"text=a", "text=b", "text=z", "text=b&text=a", "text=%", "foo"}
Locations == {"u", "u#x"} \cup {"u#x:~:" \o directive : directive \in RunDirectives}
Hrefs == Locations \cup {"v#x:~:text=a"}
FragDirs == {":~:" \o directive : directive \in RunDirectives} \cup {"text=a"}

\* the window: what browserSupportsTextFragments() returns in it, and
\* whether its selection holds more than one range
Windows == [supportsTextFragments : BOOLEAN, multipleRanges : BOOLEAN]

\* after install(): parsedValues is the window, input is document.URL,
\* ranges is the window's selection, directives lists the fragment
\* directives that applyFragmentDirective was given
InitPolyfill ==
    /\ document \in ProcessDocuments
    /\ parsedValues \in Windows
    /\ input \in Locations
    /\ pc = "installed"
    /\ ranges = <<>>
    /\ directives = <<>>
    /\ result = Handled("ok", <<>>, Null, "")
    /\ searchRange = NullRange

\* the state a handler leaves, the handler having been given a fragment directive or not
AfterHandler(handled, given) ==
    /\ result' = handled
    /\ ranges' = handled.selection
    /\ directives' = IF IsNull(given) THEN directives ELSE Append(directives, Val(given))

\* window's load event, listened to where text fragments are not supported
Load ==
    /\ pc = "installed"
    /\ ~parsedValues.supportsTextFragments
    /\ Len(directives) < MaxRuns
    /\ AfterHandler(run(document, parsedValues, ranges, input), DirectiveOf(input))
    /\ pc' = "ready"
    /\ UNCHANGED <<document, input, parsedValues, searchRange>>

\* the location's fragment changes, and window's hashchange event follows
Hashchange ==
    /\ pc = "ready"
    /\ ~parsedValues.supportsTextFragments
    /\ Len(directives) < MaxRuns
    /\ \E location \in Locations \ {input} :
          /\ input' = location
          /\ AfterHandler(run(document, parsedValues, ranges, location), DirectiveOf(location))
    /\ UNCHANGED <<document, pc, parsedValues, searchRange>>

\* a click on a link, listened to where text fragments are supported
LinkClick ==
    /\ parsedValues.supportsTextFragments
    /\ Len(directives) < MaxRuns
    /\ \E href \in Hrefs :
          AfterHandler(linkClicked(document, parsedValues, ranges, input, href),
                       IF Split(href, "#")[1] = Split(input, "#")[1] THEN DirectiveOf(href) ELSE Null)
    /\ UNCHANGED <<document, input, pc, parsedValues, searchRange>>

\* applyFragDir called, from the console
ApplyFragDir ==
    /\ Len(directives) < MaxRuns
    /\ \E fragmentDirective \in FragDirs :
          AfterHandler(applyFragDir(document, parsedValues, ranges, fragmentDirective),
                       IF IndexOfFrom(fragmentDirective, fragmentDirectiveDelimiter, 0) = -1
                       THEN Null ELSE Some(afterDelimiter(fragmentDirective)))
    /\ UNCHANGED <<document, input, pc, parsedValues, searchRange>>

NextPolyfill == Load \/ Hashchange \/ LinkClick \/ ApplyFragDir

SpecPolyfill == InitPolyfill /\ [][NextPolyfill]_vars

\* C30: after every run of the polyfill that was given a fragment directive,
\* whatever ran before it, the window's selection is the list of the ranges
\* that directive matches, in the order of the directive; what an earlier
\* run highlighted is not selected any more.
C30_SelectionIsLatestRun ==
    directives # <<>> =>
        ranges = NonNullResults(document, Split(directives[Len(directives)], "&"))

====
